---- MODULE Spec2Model ----
(***************************************************************************)
(* Model of the two S2 cell identifier encodings of this repository:       *)
(*   - s2v1::S2CellId (alias OriginalS2CellId), the Hilbert-curve position  *)
(*     encoding, src/src/s2/s2cell_id_v1.h ("Primary", prefix v1_);         *)
(*   - S2CellId, the face + child-path + level encoding limited to level    *)
(*     28, src/src/s2/s2cell_id.h ("Compact", unprefixed names);            *)
(*   - the conversion between them (ConvertFromOldFormat /                  *)
(*     ConvertToOldFormat).                                                 *)
(*                                                                         *)
(* A uint64_t is modelled as the set of the indices (0 = least significant) *)
(* of its bits that are 1: TLC's integers are 32 bits wide, and every       *)
(* operation of the code is a bit operation or an addition modulo 2^64.     *)
(*   0 is {}, 1ULL << k is {k}, ~uint64_t{0} is 0..63.                      *)
(***************************************************************************)
EXTENDS Integers, Sequences, FiniteSets

\* ------------------------------------------------------------ uint64_t

WordBits == 64
BitIdx == 0..(WordBits - 1)
Word == SUBSET BitIdx

Zero == {}
One == {0}
AllOnes == BitIdx

\* a & b, a | b, ~a
And(a, b) == a \cap b
Or(a, b) == a \cup b
Not(a) == BitIdx \ a

\* a << k and a >> k for 0 <= k < 64 (bits shifted out are lost)
Shl(a, k) == {i + k : i \in {j \in a : j + k < WordBits}}
Shr(a, k) == {i - k : i \in {j \in a : j >= k}}

\* a + b modulo 2^64. Bit i of the sum is a_i xor b_i xor c_i, where c_i is
\* the carry into bit i: a bit j with a_j and b_j both set generates a carry
\* into j + 1, which runs on through every bit where a or b is set and stops
\* after entering the first bit k > j where neither is.
Xor(a, b) == (a \ b) \cup (b \ a)
CarryIn(a, b) ==
    LET G == a \cap b
        K == BitIdx \ (a \cup b)
        Stop(j) == LET above == {k \in K : k > j}
                   IN IF above = {} THEN WordBits
                      ELSE CHOOSE k \in above : \A m \in above : k <= m
    IN (UNION {(j + 1)..Stop(j) : j \in G}) \cap BitIdx
Add(a, b) == Xor(Xor(a, b), CarryIn(a, b))

\* a - b modulo 2^64 (two's complement)
Sub(a, b) == Add(a, Add(Not(b), One))

\* unsigned comparison: the highest bit in which a and b differ decides
Lt(a, b) ==
    LET d == (a \ b) \cup (b \ a)
    IN d # {} /\ (CHOOSE m \in d : \A k \in d : k <= m) \in b
Le(a, b) == a = b \/ Lt(a, b)
Gt(a, b) == Lt(b, a)
Ge(a, b) == Le(b, a)

\* the uint64_t of a non-negative int below 2^31
FromNat(n) == {i \in 0..30 : (n \div (2 ^ i)) % 2 = 1}
\* static_cast<uint64_t>(n) of a 32-bit int n (negative values wrap)
ToU64(n) == IF n >= 0 THEN FromNat(n) ELSE Not(FromNat(-(n + 1)))

\* the int value of a word below 2^31 (static_cast<int> of a small value)
RECURSIVE ToInt(_)
ToInt(a) ==
    IF a = {} THEN 0
    ELSE LET m == CHOOSE x \in a : \A y \in a : y <= x
         IN (2 ^ m) + ToInt(a \ {m})

\* a * b modulo 2^64: the sum of a << i over the bits i of b
RECURSIVE Mul(_, _)
Mul(a, b) ==
    IF b = {} THEN Zero
    ELSE LET m == CHOOSE x \in b : \A y \in b : y <= x
         IN Add(Shl(a, m), Mul(a, b \ {m}))

\* absl::countr_zero(x): the number of trailing zero bits (64 for 0)
countr_zero(a) ==
    IF a = {} THEN WordBits ELSE CHOOSE m \in a : \A k \in a : m <= k

\* ------------------------------------------- s2v1::S2CellId (Primary)

v1_kFaceBits == 3
v1_kNumFaces == 6
v1_kMaxLevel == 30
v1_kPosBits == 2 * v1_kMaxLevel + 1

v1_None == Zero
v1_Sentinel == AllOnes

v1_lsb(id) == And(id, Add(Not(id), One))
v1_lsb_for_level(level) == Shl(One, 2 * (v1_kMaxLevel - level))

v1_FromFace(face) ==
    Add(Shl(ToU64(face), v1_kPosBits), v1_lsb_for_level(0))

v1_face(id) == ToInt(Shr(id, v1_kPosBits))
v1_pos(id) == And(id, Shr(AllOnes, v1_kFaceBits))

\* 0x1555555555555555: the even bit positions 0, 2, ..., 60
v1_LevelMask == {i \in 0..60 : i % 2 = 0}
\* is_valid() without the test of the lowest set bit's position
v1_is_valid_AnyLsb(id) == v1_face(id) < v1_kNumFaces /\ id # Zero

v1_is_valid(id) ==
    v1_face(id) < v1_kNumFaces /\ And(v1_lsb(id), v1_LevelMask) # Zero

\* REQUIRES id # 0 (ABSL_ASSUME)
v1_level(id) == v1_kMaxLevel - (countr_zero(id) \div 2)

v1_is_leaf(id) == 0 \in id
v1_is_face(id) == And(id, Sub(v1_lsb_for_level(0), One)) = Zero

\* child_position(int level)
v1_child_position_level(id, level) ==
    ToInt(And(Shr(id, 2 * (v1_kMaxLevel - level) + 1), FromNat(3)))
\* child_position()
v1_child_position(id) == v1_child_position_level(id, v1_level(id))

v1_range_min(id) == Sub(id, Sub(v1_lsb(id), One))
v1_range_max(id) == Add(id, Sub(v1_lsb(id), One))

\* contains() leaving out the first leaf of the range
v1_contains_OpenBelow(a, other) ==
    Gt(other, v1_range_min(a)) /\ Le(other, v1_range_max(a))

v1_contains(a, other) ==
    Ge(other, v1_range_min(a)) /\ Le(other, v1_range_max(a))
v1_intersects(a, other) ==
    /\ Le(v1_range_min(other), v1_range_max(a))
    /\ Ge(v1_range_max(other), v1_range_min(a))

\* parent(int level)
v1_parent_level(id, level) ==
    LET new_lsb == v1_lsb_for_level(level)
    IN Or(And(id, Add(Not(new_lsb), One)), new_lsb)
\* parent()
v1_parent(id) ==
    LET new_lsb == Shl(v1_lsb(id), 2)
    IN Or(And(id, Add(Not(new_lsb), One)), new_lsb)

\* child() without the step back to the first child (the "- 4")
v1_child_NoRebase(id, position) ==
    LET new_lsb == Shr(v1_lsb(id), 2)
    IN Add(id, Mul(ToU64(2 * position + 1), new_lsb))

v1_child(id, position) ==
    LET new_lsb == Shr(v1_lsb(id), 2)
    IN Add(id, Mul(ToU64(2 * position + 1 - 4), new_lsb))

v1_FromFacePosLevel(face, pos, level) ==
    v1_parent_level(Add(Shl(ToU64(face), v1_kPosBits), Or(pos, One)), level)

v1_next(id) == Add(id, Shl(v1_lsb(id), 1))
v1_prev(id) == Sub(id, Shl(v1_lsb(id), 1))

\* kWrapOffset = uint64_t(kNumFaces) << kPosBits
v1_kWrapOffset == Shl(FromNat(v1_kNumFaces), v1_kPosBits)

v1_next_wrap(id) ==
    LET n == v1_next(id)
    IN IF Lt(n, v1_kWrapOffset) THEN n ELSE Sub(n, v1_kWrapOffset)

v1_prev_wrap(id) ==
    LET p == v1_prev(id)
    IN IF Lt(p, v1_kWrapOffset) THEN p ELSE Add(p, v1_kWrapOffset)

\* child_begin(int level) and child_end(int level)
v1_child_begin_level(id, level) ==
    Add(Sub(id, v1_lsb(id)), v1_lsb_for_level(level))
v1_child_end_level(id, level) ==
    Add(Add(id, v1_lsb(id)), v1_lsb_for_level(level))

\* child_end()
v1_child_end(id) == Add(Add(id, v1_lsb(id)), Shr(v1_lsb(id), 2))

v1_Begin(level) == v1_child_begin_level(v1_FromFace(0), level)
v1_End(level) == v1_child_end_level(v1_FromFace(5), level)

\* ------------------------------------------------- S2CellId (Compact)

kFaceBits == 3
kLevelBits == 5
kMaxLevel == 28
kPathBits == WordBits - kFaceBits - kLevelBits
kFaceMask == Sub(Shl(One, kFaceBits), One)
kLevelMask == Sub(Shl(One, kLevelBits), One)
\* 1ULL << (kLevelBits + kPathBits - 1): the face-0 root cell
RootMarker == Shl(One, kLevelBits + kPathBits - 1)

None == Zero

face(new_id) ==
    IF new_id = RootMarker THEN 0
    ELSE ToInt(Shr(new_id, WordBits - kFaceBits))

level(new_id) ==
    IF new_id = RootMarker THEN 0
    ELSE ToInt(And(new_id, kLevelMask))

path(new_id) ==
    LET l == level(new_id)
        mask == Sub(Shl(One, kPathBits), One)
        raw_path == And(Shr(new_id, kLevelBits), mask)
    IN IF l = 0 THEN Zero
       ELSE IF l > 0 /\ l <= kMaxLevel
            THEN And(raw_path, Sub(Shl(One, l * 2), One))
            ELSE raw_path

is_valid(new_id) ==
    LET f == ToInt(Shr(new_id, WordBits - kFaceBits))
        l == ToInt(And(new_id, kLevelMask))
        mask == Sub(Shl(One, kPathBits), One)
        current_path == And(Shr(new_id, kLevelBits), mask)
        used_bits == l * 2
        high_bits_mask == Not(Sub(Shl(One, used_bits), One))
    IN IF new_id = Zero THEN FALSE
       ELSE IF l = 0 /\ f = 0 /\ new_id = RootMarker THEN TRUE
       ELSE IF f < 0 \/ f >= 6 THEN FALSE
       ELSE IF l < 0 \/ l > kMaxLevel THEN FALSE
       ELSE IF l = 0 THEN TRUE
       ELSE IF used_bits < kPathBits /\ And(current_path, high_bits_mask) # Zero
            THEN FALSE
       ELSE TRUE

\* (face << 61) | (path << 5) | level
Pack(f, p, l) ==
    Or(Or(Shl(ToU64(f), WordBits - kFaceBits), Shl(p, kLevelBits)), ToU64(l))

\* parent() without the substitution of the root marker for an all-zero result
parent_NoRootMarker(new_id) ==
    IF ~is_valid(new_id) THEN None
    ELSE IF level(new_id) = 0 THEN None
    ELSE Pack(face(new_id), Shr(path(new_id), 2), level(new_id) - 1)

\* parent()
parent(new_id) ==
    IF ~is_valid(new_id) THEN None
    ELSE IF level(new_id) = 0 THEN None
    ELSE LET parent_id == Pack(face(new_id), Shr(path(new_id), 2), level(new_id) - 1)
         IN IF parent_id = Zero THEN RootMarker ELSE parent_id

\* child() without the test of the position
child_NoPositionCheck(new_id, position) ==
    IF ~is_valid(new_id) THEN None
    ELSE IF level(new_id) >= kMaxLevel THEN None
    ELSE Pack(face(new_id), Or(Shl(path(new_id), 2), ToU64(position)), level(new_id) + 1)

child(new_id, position) ==
    IF ~is_valid(new_id) THEN None
    ELSE IF position < 0 \/ position >= 4 THEN None
    ELSE IF level(new_id) >= kMaxLevel THEN None
    ELSE Pack(face(new_id), Or(Shl(path(new_id), 2), ToU64(position)), level(new_id) + 1)

child_position(new_id) ==
    IF ~is_valid(new_id) THEN -1
    ELSE IF level(new_id) = 0 THEN -1
    ELSE ToInt(And(path(new_id), FromNat(3)))

\* ---------------------------------------------------- conversion layer

\* the while loop of ConvertFromOldFormat: the child positions from the cell up
\* to (not including) its face cell, in the order they are pushed
RECURSIVE PathStack(_)
PathStack(current) ==
    IF v1_level(current) > 0
    THEN <<v1_child_position(current)>> \o PathStack(v1_parent(current))
    ELSE <<>>

\* the cell the while loop ends at
RECURSIVE PathRoot(_)
PathRoot(current) ==
    IF v1_level(current) > 0 THEN PathRoot(v1_parent(current)) ELSE current

\* the for loop of ConvertFromOldFormat: path = (path << 2) | path_stack[i],
\* for i from the last pushed position (the one nearest the face) down to the
\* first; acc is the path built so far
RECURSIVE BuildPathLeafFirst(_, _, _)
BuildPathLeafFirst(path_stack, i, acc) ==
    IF i < 1 THEN acc
    ELSE LET p == Or(Shl(acc, 2), ToU64(path_stack[Len(path_stack) + 1 - i]))
         IN IF p = p THEN BuildPathLeafFirst(path_stack, i - 1, p) ELSE Zero

RECURSIVE BuildPath(_, _, _)
BuildPath(path_stack, i, acc) ==
    IF i < 1 THEN acc
    ELSE LET p == Or(Shl(acc, 2), ToU64(path_stack[i]))
         IN IF p = p THEN BuildPath(path_stack, i - 1, p) ELSE Zero

\* ConvertFromOldFormat once the validity, level and face checks have passed
ConvertChecked(old_id) ==
    LET f == v1_face(old_id)
        l == v1_level(old_id)
    IN IF l = 0
       THEN LET result == Shl(ToU64(f), WordBits - kFaceBits)
            IN IF result = Zero THEN RootMarker ELSE result
       ELSE LET path_stack == PathStack(old_id)
            IN IF \E i \in 1..Len(path_stack) :
                      path_stack[i] < 0 \/ path_stack[i] >= 4
               THEN Zero
               ELSE IF v1_face(PathRoot(old_id)) # f THEN Zero
               ELSE Pack(f, BuildPath(path_stack, Len(path_stack), Zero), l)

ConvertFromOldFormat_Truncating(old_id) ==
    IF ~v1_is_valid(old_id) THEN Zero
    ELSE IF v1_level(old_id) > kMaxLevel
         THEN ConvertChecked(v1_parent_level(old_id, kMaxLevel))
    ELSE ConvertChecked(old_id)

ConvertFromOldFormat_NoLevelCheck(old_id) ==
    IF ~v1_is_valid(old_id) THEN Zero ELSE ConvertChecked(old_id)

ConvertFromOldFormat(old_id) ==
    IF ~v1_is_valid(old_id) THEN Zero
    ELSE IF v1_level(old_id) > kMaxLevel THEN Zero
    ELSE IF v1_face(old_id) < 0 \/ v1_face(old_id) >= 6 THEN Zero
    ELSE ConvertChecked(old_id)

\* the for loop of ConvertToOldFormat from step i on, result being the cell
\* built so far
RECURSIVE Descend(_, _, _, _)
Descend(result, path_bits, l, i) ==
    IF i >= l THEN result
    ELSE LET child_pos == ToInt(And(Shr(path_bits, 2 * (l - 1 - i)), FromNat(3)))
             next_result == v1_child(result, child_pos)
         IN IF child_pos < 0 \/ child_pos >= 4 THEN v1_None
            ELSE IF ~v1_is_valid(next_result) THEN v1_None
            ELSE Descend(next_result, path_bits, l, i + 1)

ConvertToOldFormat(new_id) ==
    IF new_id = Zero THEN v1_None
    ELSE IF new_id = RootMarker THEN v1_FromFace(0)
    ELSE LET f == ToInt(Shr(new_id, WordBits - kFaceBits))
             l == ToInt(And(new_id, kLevelMask))
             path_bits == And(Shr(new_id, kLevelBits), Sub(Shl(One, kPathBits), One))
         IN IF f < 0 \/ f >= 6 THEN v1_None
            ELSE IF l < 0 \/ l > kMaxLevel THEN v1_None
            ELSE IF l = 0 THEN v1_FromFace(f)
            ELSE Descend(v1_FromFace(f), path_bits, l, 0)

\* ConvertToOldFormat as a build compiles it where level() is taken of what
\* follows from its result: level() assumes a value other than 0
\* (ABSL_ASSUME), so the branches that return None() count as unreachable and
\* their tests are dropped
RECURSIVE Descend_NonZero(_, _, _, _)
Descend_NonZero(result, path_bits, l, i) ==
    IF i >= l THEN result
    ELSE LET child_pos == ToInt(And(Shr(path_bits, 2 * (l - 1 - i)), FromNat(3)))
             next_result == v1_child(result, child_pos)
         IN IF next_result = next_result
            THEN Descend_NonZero(next_result, path_bits, l, i + 1)
            ELSE v1_None

ConvertToOldFormat_NonZero(new_id) ==
    IF new_id = RootMarker THEN v1_FromFace(0)
    ELSE LET f == ToInt(Shr(new_id, WordBits - kFaceBits))
             l == ToInt(And(new_id, kLevelMask))
             path_bits == And(Shr(new_id, kLevelBits), Sub(Shl(One, kPathBits), One))
         IN IF l = 0 THEN v1_FromFace(f)
            ELSE Descend_NonZero(v1_FromFace(f), path_bits, l, 0)

\* S2CellId(const OriginalS2CellId&) and FromS2CellId
FromS2CellId(old_id) == ConvertFromOldFormat(old_id)
\* ToOldFormat() and ToS2CellId()
ToS2CellId(new_id) == ConvertToOldFormat(new_id)

\* The delegating methods next(), prev(), next_wrap(), prev_wrap() and
\* child_end() step on the Primary side, test level() of the Primary result
\* and convert it.  Each is the set of the values the method can return: one
\* value, except where the Primary result is 0 and level() is undefined.
\*
\* the level test on the Primary result and the conversion that follows it
InSupportedRange(result_old) ==
    IF v1_level(result_old) > kMaxLevel THEN None ELSE FromS2CellId(result_old)

\* level() of the Primary value 0 is undefined behaviour.  A build that
\* computes it from countr_zero(0) = 64 passes the test and converts 0; a
\* build that uses the assumption takes the receiver through
\* ConvertToOldFormat_NonZero and steps from there, to assumed_old.  (A
\* build with assertions on aborts instead of returning: the actions model
\* that.)
UndefinedLevel(assumed_old) ==
    {InSupportedRange(Zero), InSupportedRange(assumed_old)}

\* next() stepping from the end of the curve round to its beginning
next_Wrapping(new_id) ==
    LET kWrap == Shl(FromNat(v1_kNumFaces), v1_kPosBits)
        n == v1_next(ToS2CellId(new_id))
        next_old == IF Lt(n, kWrap) THEN n ELSE Sub(n, kWrap)
    IN IF next_old = Zero
       THEN UndefinedLevel(v1_next(ConvertToOldFormat_NonZero(new_id)))
       ELSE {InSupportedRange(next_old)}

next(new_id) ==
    LET next_old == v1_next(ToS2CellId(new_id))
    IN IF next_old = Zero
       THEN UndefinedLevel(v1_next(ConvertToOldFormat_NonZero(new_id)))
       ELSE {InSupportedRange(next_old)}

prev(new_id) ==
    LET prev_old == v1_prev(ToS2CellId(new_id))
    IN IF prev_old = Zero
       THEN UndefinedLevel(v1_prev(ConvertToOldFormat_NonZero(new_id)))
       ELSE {InSupportedRange(prev_old)}

\* next_wrap() keeping the Primary value's bits instead of converting them
next_wrap_Unconverted(new_id) == {v1_next_wrap(ToS2CellId(new_id))}

next_wrap(new_id) ==
    LET next_old == v1_next_wrap(ToS2CellId(new_id))
    IN IF next_old = Zero
       THEN UndefinedLevel(v1_next_wrap(ConvertToOldFormat_NonZero(new_id)))
       ELSE {InSupportedRange(next_old)}

prev_wrap(new_id) ==
    LET prev_old == v1_prev_wrap(ToS2CellId(new_id))
    IN IF prev_old = Zero
       THEN UndefinedLevel(v1_prev_wrap(ConvertToOldFormat_NonZero(new_id)))
       ELSE {InSupportedRange(prev_old)}

\* S2CellId::Begin(level)
Begin(l) == IF l > kMaxLevel THEN None ELSE FromS2CellId(v1_Begin(l))
\* End(level) as the last cell of the level instead of the value after it
End_LastCell(l) ==
    IF l > kMaxLevel THEN None ELSE FromS2CellId(v1_prev(v1_End(l)))
\* S2CellId::End(level)
End(l) == IF l > kMaxLevel THEN None ELSE FromS2CellId(v1_End(l))

\* range_min() returning the Primary leaf's conversion without parent(28)
range_min_NoTruncate(new_id) ==
    IF ~is_valid(new_id) THEN None
    ELSE LET old_format == ToS2CellId(new_id)
             range_min_old == v1_range_min(old_format)
         IN IF ~v1_is_valid(old_format) THEN None
            ELSE IF ~v1_is_valid(range_min_old) THEN None
            ELSE FromS2CellId(range_min_old)

range_min(new_id) ==
    IF ~is_valid(new_id) THEN None
    ELSE LET old_format == ToS2CellId(new_id)
             range_min_old == v1_range_min(old_format)
         IN IF ~v1_is_valid(old_format) THEN None
            ELSE IF ~v1_is_valid(range_min_old) THEN None
            ELSE IF v1_level(range_min_old) > kMaxLevel
                 THEN FromS2CellId(v1_parent_level(range_min_old, kMaxLevel))
            ELSE FromS2CellId(range_min_old)

range_max(new_id) ==
    IF ~is_valid(new_id) THEN None
    ELSE LET old_format == ToS2CellId(new_id)
             range_max_old == v1_range_max(old_format)
         IN IF ~v1_is_valid(old_format) THEN None
            ELSE IF ~v1_is_valid(range_max_old) THEN None
            ELSE IF v1_level(range_max_old) > kMaxLevel
                 THEN FromS2CellId(v1_parent_level(range_max_old, kMaxLevel))
            ELSE FromS2CellId(range_max_old)

\* child_begin()
child_begin(new_id) ==
    IF level(new_id) >= kMaxLevel THEN None ELSE child(new_id, 0)

\* child_end() as the last child instead of the value after it
child_end_LastChild(new_id) ==
    IF level(new_id) >= kMaxLevel THEN {None} ELSE {child(new_id, 3)}

\* child_end(): the set of the values it can return, as for next()
child_end(new_id) ==
    LET child_end_old == v1_child_end(ToS2CellId(new_id))
    IN IF level(new_id) >= kMaxLevel THEN {None}
       ELSE IF child_end_old = Zero
            THEN UndefinedLevel(v1_child_end(ConvertToOldFormat_NonZero(new_id)))
            ELSE {InSupportedRange(child_end_old)}

\* S2CellId::Sentinel(): S2CellId(~uint64_t{0})
Sentinel == AllOnes

\* operator< comparing the Compact values themselves
CellLt_Raw(a, b) == Lt(a, b)

\* operator< and operator<= of S2CellId: the Primary values are compared
CellLt(a, b) == Lt(ToS2CellId(a), ToS2CellId(b))
CellLe(a, b) == ~CellLt(b, a)

\* contains() with the receiver and the argument exchanged
contains_Swapped(a, other) == v1_contains(ToS2CellId(other), ToS2CellId(a))

\* contains() and intersects(): the Primary values are tested
contains(a, other) == v1_contains(ToS2CellId(a), ToS2CellId(other))
intersects(a, other) == v1_intersects(ToS2CellId(a), ToS2CellId(other))

\* child(p) applied down to kMaxLevel: the first (p = 0) or last (p = 3)
\* deepest descendant of a valid cell
RECURSIVE Descendant(_, _)
Descendant(new_id, p) ==
    IF level(new_id) >= kMaxLevel THEN new_id
    ELSE LET c == child(new_id, p)
         IN IF c = c THEN Descendant(c, p) ELSE None

CanRepresentInNewFormat(old_id) == v1_level(old_id) <= kMaxLevel

\* -------------------------------------------------- factories and text

\* FromFaceLevel without the root marker for the all-zero face-0 root
FromFaceLevel_NoRootMarker(f, l) ==
    IF f < 0 \/ f > 5 \/ l < 0 \/ l > kMaxLevel THEN None
    ELSE IF l = 0 THEN Or(Shl(ToU64(f), WordBits - kFaceBits), ToU64(l))
    ELSE LET old_id == v1_FromFacePosLevel(f, Zero, l)
         IN IF ~v1_is_valid(old_id) THEN None ELSE FromS2CellId(old_id)

\* FromFaceLevel making the last cell of the level instead of the first
FromFaceLevel_LastCell(f, l) ==
    IF f < 0 \/ f > 5 \/ l < 0 \/ l > kMaxLevel THEN None
    ELSE IF l = 0
         THEN LET id == Or(Shl(ToU64(f), WordBits - kFaceBits), ToU64(l))
              IN IF id = Zero THEN RootMarker ELSE id
    ELSE LET old_id == v1_FromFacePosLevel(f, Shr(AllOnes, v1_kFaceBits), l)
         IN IF ~v1_is_valid(old_id) THEN None ELSE FromS2CellId(old_id)

FromFaceLevel(f, l) ==
    IF f < 0 \/ f > 5 \/ l < 0 \/ l > kMaxLevel THEN None
    ELSE IF l = 0
         THEN LET id == Or(Shl(ToU64(f), WordBits - kFaceBits), ToU64(l))
              IN IF id = Zero THEN RootMarker ELSE id
    ELSE LET old_id == v1_FromFacePosLevel(f, Zero, l)
         IN IF ~v1_is_valid(old_id) THEN None ELSE FromS2CellId(old_id)

\* FromFace() making the cell of the following face
FromFace_Shifted(f) == FromS2CellId(v1_FromFace(f + 1))

FromFace(f) == FromS2CellId(v1_FromFace(f))

\* the while loop of parent(int): parent() until the level is target_level
RECURSIVE ParentLoop(_, _)
ParentLoop(current, target_level) ==
    IF level(current) > target_level
    THEN LET up == parent(current)
         IN IF up = up THEN ParentLoop(up, target_level) ELSE None
    ELSE current

\* parent(int) whose delegated path stops one level short
parent_level_OneShort(new_id, target_level) ==
    IF target_level < 0 \/ target_level > kMaxLevel THEN None
    ELSE IF target_level >= level(new_id) THEN new_id
    ELSE IF level(new_id) - target_level > 5
         THEN FromS2CellId(v1_parent_level(ToS2CellId(new_id), target_level + 1))
    ELSE ParentLoop(new_id, target_level)

\* parent(int target_level)
parent_level(new_id, target_level) ==
    IF target_level < 0 \/ target_level > kMaxLevel THEN None
    ELSE IF target_level >= level(new_id) THEN new_id
    ELSE IF level(new_id) - target_level > 5
         THEN FromS2CellId(v1_parent_level(ToS2CellId(new_id), target_level))
    ELSE ParentLoop(new_id, target_level)

\* A std::string is a sequence of one-character strings.
DecChars == <<"0", "1", "2", "3", "4", "5", "6", "7", "8", "9">>
HexChars == DecChars \o <<"a", "b", "c", "d", "e", "f">>
CharOf(chars, n) == chars[n + 1]
ValOf(chars, c) == (CHOOSE k \in 1..Len(chars) : chars[k] = c) - 1
IsIn(chars, c) == \E k \in 1..Len(chars) : chars[k] = c
InvalidText == <<"I", "N", "V", "A", "L", "I", "D">>

\* ToString() writing the child positions from the leaf up
ToString_LeafFirst(new_id) ==
    LET f == face(new_id)
        l == level(new_id)
        current_path == path(new_id)
    IN IF ~is_valid(new_id) THEN InvalidText
       ELSE IF l = 0 THEN <<CharOf(DecChars, f)>>
       ELSE <<CharOf(DecChars, f), "/">> \o
            [k \in 1..l |->
                CharOf(DecChars, ToInt(And(Shr(current_path, 2 * (k - 1)), FromNat(3))))]

\* ToString() without the '/' between the face and the child positions
ToString_NoSlash(new_id) ==
    LET f == face(new_id)
        l == level(new_id)
        current_path == path(new_id)
    IN IF ~is_valid(new_id) THEN InvalidText
       ELSE IF l = 0 THEN <<CharOf(DecChars, f)>>
       ELSE <<CharOf(DecChars, f)>> \o
            [k \in 1..l |->
                CharOf(DecChars, ToInt(And(Shr(current_path, 2 * (l - k)), FromNat(3))))]

\* ToString(): "INVALID", "<face>" or "<face>/<child positions from the top>"
ToString(new_id) ==
    LET f == face(new_id)
        l == level(new_id)
        current_path == path(new_id)
    IN IF ~is_valid(new_id) THEN InvalidText
       ELSE IF l = 0 THEN <<CharOf(DecChars, f)>>
       ELSE <<CharOf(DecChars, f), "/">> \o
            [k \in 1..l |->
                CharOf(DecChars, ToInt(And(Shr(current_path, 2 * (l - k)), FromNat(3))))]

\* str.find('/'): the index of the first '/', 0 for npos
FindSlash(str) ==
    IF \E k \in 1..Len(str) : str[k] = "/"
    THEN CHOOSE k \in 1..Len(str) : str[k] = "/" /\ \A j \in 1..(k - 1) : str[j] # "/"
    ELSE 0

\* the characters isspace() accepts in the "C" locale: space, horizontal
\* tab, line feed, vertical tab, form feed and carriage return
WhiteSpace == {" ", "\t", "\n", "", "\f", "\r"}

\* int is 32 bits wide
IntMax == 2 * (2 ^ 30 - 1) + 1
IntMin == -IntMax - 1

\* std::stoi: leading white space and one sign are skipped and the digits
\* that follow are the value; the text after them is ignored.  <<FALSE, 0>>
\* where stoi throws: std::invalid_argument when no digit follows,
\* std::out_of_range when the value does not fit an int.
\* StoiDigits accumulates the digits from str[k] on as a negative number, so
\* that the magnitude of INT_MIN fits; 1 when the value leaves the range.
RECURSIVE StoiDigits(_, _, _)
StoiDigits(str, k, acc) ==
    IF k > Len(str) \/ ~IsIn(DecChars, str[k]) THEN acc
    ELSE LET digit == ValOf(DecChars, str[k])
         IN IF acc < (IntMin + digit + 9) \div 10 THEN 1
            ELSE StoiDigits(str, k + 1, acc * 10 - digit)

RECURSIVE SkipSpaces(_, _)
SkipSpaces(str, k) ==
    IF k <= Len(str) /\ str[k] \in WhiteSpace THEN SkipSpaces(str, k + 1) ELSE k

stoi(str) ==
    LET s == SkipSpaces(str, 1)
        signed == s <= Len(str) /\ str[s] \in {"+", "-"}
        minus == signed /\ str[s] = "-"
        d == IF signed THEN s + 1 ELSE s
        neg == StoiDigits(str, d, 0)
    IN IF d > Len(str) \/ ~IsIn(DecChars, str[d]) THEN <<FALSE, 0>>
       ELSE IF neg = 1 THEN <<FALSE, 0>>
       ELSE IF ~minus /\ neg = IntMin THEN <<FALSE, 0>>
       ELSE <<TRUE, IF minus THEN neg ELSE -neg>>

\* the for loop of FromString: path = (path << 2) | (c - '0')
RECURSIVE PathOfDigits(_, _, _)
PathOfDigits(path_str, i, acc) ==
    IF i > Len(path_str) THEN acc
    ELSE LET p == Or(Shl(acc, 2), FromNat(ValOf(DecChars, path_str[i])))
         IN IF p = p THEN PathOfDigits(path_str, i + 1, p) ELSE Zero

FromString(str) ==
    LET slash_pos == FindSlash(str)
        face_str == IF slash_pos = 0 THEN str ELSE SubSeq(str, 1, slash_pos - 1)
        parsed == stoi(face_str)
        f == parsed[2]
        path_str == SubSeq(str, slash_pos + 1, Len(str))
        l == Len(path_str)
    IN IF str = <<>> THEN None
       ELSE IF ~parsed[1] THEN None
       ELSE IF f < 0 \/ f > 5 THEN None
       ELSE IF slash_pos = 0 THEN FromFaceLevel(f, 0)
       ELSE IF l = 0 THEN FromFaceLevel(f, 0)
       ELSE IF l > kMaxLevel THEN None
       ELSE IF \E i \in 1..l : path_str[i] \notin {"0", "1", "2", "3"} THEN None
       ELSE Pack(f, PathOfDigits(path_str, 1, Zero), l)

\* s2v1::S2CellId::ToToken: the hexadecimal digits of the id from the top,
\* without the trailing zero digits; "X" for 0
v1_ToToken(id) ==
    IF id = Zero THEN <<"X">>
    ELSE LET n == (WordBits \div 4) - (countr_zero(id) \div 4)
         IN [k \in 1..n |->
                CharOf(HexChars, ToInt(And(Shr(id, WordBits - 4 * k), FromNat(15))))]

\* s2v1::S2CellId::FromToken: None for more than 16 characters or any
\* character that is no hexadecimal digit
v1_FromToken(token) ==
    IF Len(token) > WordBits \div 4 THEN v1_None
    ELSE IF \E k \in 1..Len(token) : ~IsIn(HexChars, token[k]) THEN v1_None
    ELSE UNION {Shl(FromNat(ValOf(HexChars, token[k])), WordBits - 4 * k) :
                    k \in 1..Len(token)}

\* ToToken() writing the Compact value instead of the Primary value
ToToken_Raw(new_id) == v1_ToToken(new_id)

ToToken(new_id) == v1_ToToken(ToS2CellId(new_id))

FromToken(token) ==
    LET old_id == v1_FromToken(token)
    IN IF ~v1_is_valid(old_id) THEN None
       ELSE IF v1_level(old_id) > kMaxLevel
            THEN FromS2CellId(v1_parent_level(old_id, kMaxLevel))
       ELSE FromS2CellId(old_id)

\* FromPoint() converting the leaf cell itself
FromPoint_NoTruncate(old_id) == FromS2CellId(old_id)

\* FromPoint(), FromLatLng() and the point and lat-lng constructors, from
\* OriginalS2CellId old_id(point) on
FromPoint(old_id) ==
    IF v1_level(old_id) > kMaxLevel
    THEN FromS2CellId(v1_parent_level(old_id, kMaxLevel))
    ELSE FromS2CellId(old_id)

\* Decode(), from a successful old_id.Decode(decoder) on
Decode(old_id) ==
    IF v1_level(old_id) > kMaxLevel
    THEN ConvertFromOldFormat(v1_parent_level(old_id, kMaxLevel))
    ELSE ConvertFromOldFormat(old_id)

\* FromDebugString(), from OriginalS2CellId::FromDebugString(str) on
FromDebugString(old_id) ==
    IF ~v1_is_valid(old_id) THEN None
    ELSE IF v1_level(old_id) > kMaxLevel
         THEN FromS2CellId(v1_parent_level(old_id, kMaxLevel))
    ELSE FromS2CellId(old_id)

\* --------------------------------------------------------------- inputs

\* Seeds 0..MaxSeed select the child-position patterns the inputs are built from.
MaxSeed == 3

\* the child position at depth i (1..30) of pattern s: all 0, all 3, or mixed
Digit(s, i) ==
    IF s = 0 THEN 0 ELSE IF s = 1 THEN 3 ELSE (s + i * (s - 1)) % 4

\* the 61-bit Hilbert position whose depth-i child position is Digit(s, i)
PosPattern(s) ==
    UNION {Shl(FromNat(Digit(s, i)), 2 * (v1_kMaxLevel - i) + 1) : i \in 1..v1_kMaxLevel}

Faces == 0..(v1_kNumFaces - 1)
v1_Levels == 0..v1_kMaxLevel

\* valid Primary identifiers of every face and level
ValidPrimaryInputs ==
    {v1_FromFacePosLevel(f, PosPattern(s), l) :
        f \in Faces, l \in v1_Levels, s \in 0..MaxSeed}

\* Primary values that are no cell: None, Sentinel, faces 6 and 7, and values
\* whose lowest set bit is at an odd position
InvalidPrimaryInputs ==
    {v1_None, v1_Sentinel, v1_FromFace(6), v1_FromFace(7), {1}, {61, 59},
     Or(v1_FromFace(6), {2}), Or(v1_FromFace(3), {7})}

PrimaryInputs == ValidPrimaryInputs \cup InvalidPrimaryInputs

\* Seeds 0..MaxRawSeed select the path fields of the raw Compact inputs.
MaxRawSeed == 4

\* the path of level l whose depth-i child position is Digit(t, i)
PathOfPattern(t, l) ==
    UNION {Shl(FromNat(Digit(t, i)), 2 * (l - i)) : i \in 1..l}

\* a 56-bit path field for a level field l: empty, the low 2*l bits all set,
\* the top path bit alone, the lowest path bit alone, or mixed child positions
\* in the low 2*l bits
RawPath(s, l) ==
    LET used == IF l > kMaxLevel THEN kMaxLevel ELSE l
    IN IF s = 0 THEN Zero
       ELSE IF s = 1 THEN Sub(Shl(One, 2 * used), One)
       ELSE IF s = 2 THEN {kPathBits - 1}
       ELSE IF s = 3 THEN One
       ELSE PathOfPattern(s - 2, used)

\* S2CellId(uint64_t new_id) for the face fields of F, every level field
\* 0..31 and each path seed: valid cells, None, and values that are no cell
CompactInputsOf(F) ==
    {Or(Or(Shl(FromNat(f), WordBits - kFaceBits), Shl(RawPath(s, l), kLevelBits)),
        FromNat(l)) :
        f \in F, l \in 0..31, s \in 0..MaxRawSeed}

CompactInputs == CompactInputsOf(0..7)

\* --------------------------------------------------------------- state

\* old:    the OriginalS2CellId (Primary) value at hand
\* cell:   the S2CellId (Compact) value at hand, its new_id_
\* op:     the last operation applied
\* arg:    its int argument (0 when it has none)
\* before: the value the operation's result replaced (for a method that yields
\*         an identifier of its own kind: the identifier it was called on)
\* ret:    the result of the last operation that yields a bool or an int
VARIABLES old, cell, op, arg, before, ret

vars == <<old, cell, op, arg, before, ret>>

\* ------------------------------------------ conversion specification

Init ==
    /\ old \in PrimaryInputs
    /\ cell = None
    /\ op = "init"
    /\ arg = 0
    /\ before = Zero
    /\ ret = 0

\* cell = S2CellId::FromS2CellId(old)
DoFromS2CellId ==
    /\ cell' = FromS2CellId(old)
    /\ op' = "FromS2CellId"
    /\ before' = cell
    /\ UNCHANGED <<old, arg, ret>>

\* old = cell.ToS2CellId()
DoToS2CellId ==
    /\ old' = ToS2CellId(cell)
    /\ op' = "ToS2CellId"
    /\ before' = old
    /\ UNCHANGED <<cell, arg, ret>>

\* ret = S2CellId::CanRepresentInNewFormat(old); level() of 0 is undefined
DoCanRepresentInNewFormat ==
    /\ IF old = Zero THEN ret' \in BOOLEAN
       ELSE ret' = CanRepresentInNewFormat(old)
    /\ op' = "CanRepresentInNewFormat"
    /\ UNCHANGED <<old, cell, arg, before>>

\* cell = cell.next(), on a cell that came out of the conversion
DoNext ==
    /\ is_valid(cell)
    /\ cell' \in next(cell)
    /\ op' = "next"
    /\ before' = cell
    /\ UNCHANGED <<old, arg, ret>>

\* cell = cell.prev()
DoPrev ==
    /\ is_valid(cell)
    /\ cell' \in prev(cell)
    /\ op' = "prev"
    /\ before' = cell
    /\ UNCHANGED <<old, arg, ret>>

\* a Primary input is converted or tested; the converted cell is converted
\* back or stepped along the curve
Next ==
    \/ op = "init" /\ DoFromS2CellId
    \/ op = "init" /\ DoCanRepresentInNewFormat
    \/ op = "FromS2CellId" /\ DoToS2CellId
    \/ op = "FromS2CellId" /\ DoNext
    \/ op = "FromS2CellId" /\ DoPrev

Spec == Init /\ [][Next]_vars


\* --------------------------------------------- Primary specification

\* old = old.child(p); REQUIRES is_valid() and !is_leaf()
DoV1Child(p) ==
    /\ v1_is_valid(old) /\ ~v1_is_leaf(old)
    /\ old' = v1_child(old, p)
    /\ op' = "v1_child"
    /\ arg' = p
    /\ before' = old
    /\ UNCHANGED <<cell, ret>>

\* old = old.parent(); REQUIRES is_valid() and !is_face()
DoV1Parent ==
    /\ v1_is_valid(old) /\ ~v1_is_face(old)
    /\ old' = v1_parent(old)
    /\ op' = "v1_parent"
    /\ arg' = 0
    /\ before' = old
    /\ UNCHANGED <<cell, ret>>

\* ret = before.contains(old), the cell a child or a parent was taken of
\* against the result; REQUIRES both valid
DoV1Contains ==
    /\ v1_is_valid(before) /\ v1_is_valid(old)
    /\ ret' = v1_contains(before, old)
    /\ op' = "v1_contains"
    /\ UNCHANGED <<old, cell, arg, before>>

NextV1 ==
    \/ op = "init" /\ \E p \in 0..3 : DoV1Child(p)
    \/ op \in {"init", "v1_child"} /\ DoV1Parent
    \/ op \in {"v1_child", "v1_parent"} /\ DoV1Contains

SpecV1 == Init /\ [][NextV1]_vars

\* --------------------------------------------- Compact specification

InitV2 ==
    /\ cell \in CompactInputs
    /\ old = v1_None
    /\ op = "init"
    /\ arg = 0
    /\ before = Zero
    /\ ret = 0

\* cell = cell.child(p)
DoChild(p) ==
    /\ cell' = child(cell, p)
    /\ op' = "child"
    /\ arg' = p
    /\ before' = cell
    /\ UNCHANGED <<old, ret>>

\* cell = cell.parent()
DoParent ==
    /\ cell' = parent(cell)
    /\ op' = "parent"
    /\ arg' = 0
    /\ before' = cell
    /\ UNCHANGED <<old, ret>>

\* ret = cell.child_position()
DoChildPosition ==
    /\ ret' = child_position(cell)
    /\ op' = "child_position"
    /\ UNCHANGED <<old, cell, arg, before>>

\* cell = cell.range_min()
DoRangeMin ==
    /\ cell' = range_min(cell)
    /\ op' = "range_min"
    /\ before' = cell
    /\ UNCHANGED <<old, arg, ret>>

\* cell = cell.range_max()
DoRangeMax ==
    /\ cell' = range_max(cell)
    /\ op' = "range_max"
    /\ before' = cell
    /\ UNCHANGED <<old, arg, ret>>

\* a Compact input is converted to Primary and back, or navigated from
NextV2 ==
    \/ op = "init" /\ DoToS2CellId
    \/ op = "ToS2CellId" /\ DoFromS2CellId
    \/ op = "init" /\ \E p \in 0..3 : DoChild(p)
    \/ op = "init" /\ DoParent
    \/ op = "init" /\ DoChildPosition
    \/ op = "init" /\ DoRangeMin
    \/ op = "init" /\ DoRangeMax

SpecV2 == InitV2 /\ [][NextV2]_vars

\* ---------------------------------------------- relation specification

\* the first face, the last face and a face that does not exist
RelFaces == {0, v1_kNumFaces - 1, v1_kNumFaces}

InitRel ==
    /\ cell \in CompactInputsOf(RelFaces)
    /\ old = v1_None
    /\ op = "init"
    /\ arg = 0
    /\ before = Zero
    /\ ret = 0

\* ret = a.contains(b); before and cell become the receiver and the argument
DoContains(a, b) ==
    /\ is_valid(a) /\ is_valid(b)
    /\ ret' = contains(a, b)
    /\ op' = "contains"
    /\ before' = a
    /\ cell' = b
    /\ UNCHANGED <<old, arg>>

\* ret = a.intersects(b)
DoIntersects(a, b) ==
    /\ is_valid(a) /\ is_valid(b)
    /\ ret' = intersects(a, b)
    /\ op' = "intersects"
    /\ before' = a
    /\ cell' = b
    /\ UNCHANGED <<old, arg>>

\* a Compact input and its child or parent are tested against each other and
\* against themselves
NextRel ==
    \/ op = "init" /\ \E p \in 0..3 : DoChild(p)
    \/ op = "init" /\ DoParent
    \/ op \in {"child", "parent"} /\ \E a, b \in {before, cell} : DoContains(a, b)
    \/ op \in {"child", "parent"} /\ \E a, b \in {before, cell} : DoIntersects(a, b)

SpecRel == InitRel /\ [][NextRel]_vars

\* ---------------------------------------------- ordering specification

\* the cells put into the container: two faces, the top two levels and the
\* deepest level, each path seed
OrdFaces == {0, v1_kNumFaces - 1}
OrdLevels == {0, 1, kMaxLevel}
OrdSeeds == {0, 1, 2}
OrdInputs ==
    {v1_FromFacePosLevel(f, PosPattern(s), l) :
        f \in OrdFaces, l \in OrdLevels, s \in OrdSeeds}

\* the container holds at most MaxInserts cells
MaxInserts == 2

\* std::set<S2CellId>::insert(c) on the elements in iteration order: c is
\* dropped when an element is equivalent under operator<, and otherwise placed
\* after the elements that are less than c
SetInsert(elems, c) ==
    LET lower == {i \in 1..Len(elems) : CellLt(elems[i], c)}
        k == Cardinality(lower)
    IN IF k < Len(elems) /\ ~CellLt(c, elems[k + 1])
       THEN elems
       ELSE SubSeq(elems, 1, k) \o <<c>> \o SubSeq(elems, k + 1, Len(elems))

InitOrd ==
    /\ old = v1_None
    /\ cell = None
    /\ op = "init"
    /\ arg = 0
    /\ before = Zero
    /\ ret = <<>>

\* ordered_set.insert(S2CellId(x)); ret is the container, arg the inserts made
DoInsert(x) ==
    /\ arg < MaxInserts
    /\ old' = x
    /\ cell' = FromS2CellId(x)
    /\ before' = cell
    /\ ret' = SetInsert(ret, cell')
    /\ op' = "insert"
    /\ arg' = arg + 1

NextOrd == \E x \in OrdInputs : DoInsert(x)

SpecOrd == InitOrd /\ [][NextOrd]_vars

\* -------------------------------------------------- wrap specification

\* Walks round the whole curve are made at levels 0..MaxCycleLevel; at a
\* deeper level a walk ends after DeepSteps steps.
MaxCycleLevel == 2
DeepSteps == 2

RECURSIVE Pow4(_)
Pow4(d) == IF d = 0 THEN 1 ELSE 4 * Pow4(d - 1)

\* the number of cells of level d: six faces of 4^d cells
CellsAtLevel(d) == v1_kNumFaces * Pow4(d)

StepLimit(d) == IF d <= MaxCycleLevel THEN CellsAtLevel(d) ELSE DeepSteps

\* a walk starts at a valid Primary cell or at a raw Compact value; before
\* keeps the start
InitWrap ==
    /\ \/ old \in ValidPrimaryInputs /\ cell = None /\ before = old
       \/ old = v1_None /\ cell \in CompactInputsOf(RelFaces) /\ before = cell
    /\ op = "init"
    /\ arg = 0
    /\ ret = Zero

\* old = old.next_wrap(); ret keeps the cell stepped from, arg counts the steps
DoV1NextWrap ==
    /\ v1_is_valid(old)
    /\ arg < StepLimit(v1_level(before))
    /\ old' = v1_next_wrap(old)
    /\ ret' = old
    /\ arg' = arg + 1
    /\ op' = "v1_next_wrap"
    /\ UNCHANGED <<cell, before>>

\* old = old.prev_wrap()
DoV1PrevWrap ==
    /\ v1_is_valid(old)
    /\ old' = v1_prev_wrap(old)
    /\ ret' = old
    /\ arg' = arg + 1
    /\ op' = "v1_prev_wrap"
    /\ UNCHANGED <<cell, before>>

\* cell = cell.next_wrap()
DoNextWrap ==
    /\ is_valid(cell)
    /\ arg < StepLimit(level(before))
    /\ cell' \in next_wrap(cell)
    /\ ret' = cell
    /\ arg' = arg + 1
    /\ op' = "next_wrap"
    /\ UNCHANGED <<old, before>>

\* cell = cell.prev_wrap()
DoPrevWrap ==
    /\ is_valid(cell)
    /\ cell' \in prev_wrap(cell)
    /\ ret' = cell
    /\ arg' = arg + 1
    /\ op' = "prev_wrap"
    /\ UNCHANGED <<old, before>>

\* next_wrap() is repeated from the start; prev_wrap() is applied to the start
NextWrap ==
    \/ op \in {"init", "v1_next_wrap"} /\ DoV1NextWrap
    \/ op = "init" /\ DoV1PrevWrap
    \/ op \in {"init", "next_wrap"} /\ DoNextWrap
    \/ op = "init" /\ DoPrevWrap

SpecWrap == InitWrap /\ [][NextWrap]_vars

\* ------------------------------------------ navigation specification

\* the face and level arguments handed to the factories
FactoryFaces == -1..6
FactoryLevels == -1..(kMaxLevel + 1)

InitNav ==
    /\ cell = None
    /\ old = v1_None
    /\ op = "init"
    /\ arg = 0
    /\ before = Zero
    /\ ret = 0

\* cell = S2CellId::FromFaceLevel(f, l); ret and arg keep f and l
DoFromFaceLevel(f, l) ==
    /\ cell' = FromFaceLevel(f, l)
    /\ op' = "FromFaceLevel"
    /\ arg' = l
    /\ ret' = f
    /\ before' = cell
    /\ UNCHANGED old

\* cell = S2CellId::FromFace(f)
DoFromFace(f) ==
    /\ cell' = FromFace(f)
    /\ op' = "FromFace"
    /\ arg' = f
    /\ before' = cell
    /\ UNCHANGED <<old, ret>>

\* cell = cell.parent(l)
DoParentLevel(l) ==
    /\ cell' = parent_level(cell, l)
    /\ op' = "parent_level"
    /\ arg' = l
    /\ before' = cell
    /\ UNCHANGED <<old, ret>>

\* ret = cell.ToString()
DoToString ==
    /\ ret' = ToString(cell)
    /\ op' = "ToString"
    /\ UNCHANGED <<old, cell, arg, before>>

\* cell = S2CellId::FromString(ret)
DoFromString ==
    /\ cell' = FromString(ret)
    /\ op' = "FromString"
    /\ before' = cell
    /\ UNCHANGED <<old, arg, ret>>

\* ret = cell.ToToken()
DoToToken ==
    /\ ret' = ToToken(cell)
    /\ op' = "ToToken"
    /\ UNCHANGED <<old, cell, arg, before>>

\* cell = S2CellId::FromToken(ret)
DoFromToken ==
    /\ cell' = FromToken(ret)
    /\ op' = "FromToken"
    /\ before' = cell
    /\ UNCHANGED <<old, arg, ret>>

\* a cell is made by a factory, then navigated from or written as text, and
\* the text is read back
NextNav ==
    \/ op = "init" /\ \E f \in FactoryFaces, l \in FactoryLevels : DoFromFaceLevel(f, l)
    \/ op = "init" /\ \E f \in FactoryFaces : DoFromFace(f)
    \/ op \in {"FromFaceLevel", "FromFace"} /\ \E p \in 0..3 : DoChild(p)
    \/ op \in {"FromFaceLevel", "FromFace"} /\ \E l \in FactoryLevels : DoParentLevel(l)
    \/ op \in {"FromFaceLevel", "FromFace"} /\ DoToS2CellId
    \/ op \in {"FromFaceLevel", "FromFace"} /\ DoNext
    \/ op \in {"FromFaceLevel", "FromFace"} /\ DoPrev
    \/ op \in {"FromFaceLevel", "FromFace"} /\ DoToString
    \/ op \in {"FromFaceLevel", "FromFace"} /\ DoToToken
    \/ op = "ToString" /\ DoFromString
    \/ op = "ToToken" /\ DoFromToken

SpecNav == InitNav /\ [][NextNav]_vars

\* -------------------------------------------------- text specification

\* the cells written as text: the raw Compact inputs and FromFace(3).child(2)
TextCells == CompactInputs \cup {child(FromFace(3), 2)}

\* a string of n copies of the character c
Repeat(c, n) == [k \in 1..n |-> c]

\* strings handed to FromString
StringInputs ==
    { <<>>,
      <<"i", "n", "v", "a", "l", "i", "d">>,
      InvalidText,
      <<"6", "/", "0">>,
      <<"0", "/", "4">>,
      <<"3", "/", "2">>,
      <<"0">>,
      <<"5", "/">>,
      <<"/", "1">>,
      <<"-", "1">>,
      <<"-", "1", "/", "0">>,
      <<"7">>,
      <<"1", "2">>,
      <<"9", "9", "9", "9", "9", "9", "9", "9", "9", "9", "9", "9">>,
      <<"+", "3">>,
      <<"0", "2", "/", "1">>,
      <<" ", "4", "/", "0">>,
      <<"\t", "4", "/", "0">>,
      <<"\n", "4", "/", "0">>,
      <<"\r", "4", "/", "0">>,
      <<" ", "\t", " ", "4", "/", "0">>,
      <<"\f", "4">>,
      <<"", "3", "/", "1">>,
      <<"4", "\t", "/", "0">>,
      <<"1", "0", "0", "1">>,
      <<"2", "1", "4", "7", "4", "8", "3", "6", "4", "7">>,
      <<"2", "1", "4", "7", "4", "8", "3", "6", "4", "8">>,
      <<"-", "2", "1", "4", "7", "4", "8", "3", "6", "4", "8">>,
      <<"-", "0", "/", "2">>,
      <<"1", "x", "/", "2">>,
      <<"5", "a", "b", "c">>,
      <<"x", "1", "/", "2">>,
      <<"2", "/", "1", "/", "3">>,
      <<"2", "/", "1", "a">>,
      <<"2", "/", "-", "1">>,
      <<"2", "/", " ", "1">>,
      <<"1", "/">> \o Repeat("3", kMaxLevel),
      <<"1", "/">> \o Repeat("3", kMaxLevel + 1),
      <<"0", "/">> \o Repeat("0", kMaxLevel + 2) }

\* tokens handed to FromToken
TokenInputs ==
    { <<>>,
      <<"X">>,
      <<"1">>,
      <<"b">>,
      <<"d">>,
      <<"f">>,
      <<"0">>,
      <<"7", "4">>,
      <<"g">>,
      <<"1", "/", "2">>,
      <<"3", " ">>,
      <<"-", "1">>,
      Repeat("0", 15) \o <<"1">>,
      Repeat("0", 15) \o <<"2">>,
      <<"1">> \o Repeat("0", 15),
      <<"1">> \o Repeat("0", 16),
      Repeat("1", 17) }

\* a Compact cell or a Primary identifier to write, or a text to read
InitText ==
    /\ arg = 0
    /\ before = Zero
    /\ \/ cell \in TextCells /\ old = v1_None /\ ret = <<>> /\ op = "init"
       \/ cell = None /\ old \in PrimaryInputs /\ ret = <<>> /\ op = "v1_init"
       \/ cell = None /\ old = v1_None /\ ret \in StringInputs /\ op = "string"
       \/ cell = None /\ old = v1_None /\ ret \in TokenInputs /\ op = "token"

\* ret = old.ToToken()
DoV1ToToken ==
    /\ ret' = v1_ToToken(old)
    /\ op' = "v1_ToToken"
    /\ UNCHANGED <<old, cell, arg, before>>

\* old = s2v1::S2CellId::FromToken(ret)
DoV1FromToken ==
    /\ old' = v1_FromToken(ret)
    /\ op' = "v1_FromToken"
    /\ before' = old
    /\ UNCHANGED <<cell, arg, ret>>

\* a cell is written and the text read back, or an input text is read
NextText ==
    \/ op = "init" /\ DoToString
    \/ op \in {"ToString", "string"} /\ DoFromString
    \/ op = "init" /\ DoToToken
    \/ op \in {"ToToken", "token"} /\ DoFromToken
    \/ op = "v1_init" /\ DoV1ToToken
    \/ op \in {"v1_ToToken", "token"} /\ DoV1FromToken

SpecText == InitText /\ [][NextText]_vars

\* ------------------------------------------------ misuse specification

\* child positions and target levels, inside and outside their ranges
MisusePositions == -1..4
MisuseLevels == {-1, 0, 1, 14, kMaxLevel - 1, kMaxLevel, kMaxLevel + 1}

\* a raw Compact input is asked for a child, its parent or an ancestor
NextMisuse ==
    \/ op = "init" /\ \E p \in MisusePositions : DoChild(p)
    \/ op = "init" /\ DoParent
    \/ op = "init" /\ \E k \in MisuseLevels : DoParentLevel(k)

SpecMisuse == InitRel /\ [][NextMisuse]_vars

\* ------------------------------------------- invalid-cell specification

\* cell = cell.next() called on a value that is_valid() rejects.  Where the
\* Primary result is 0 the call returns one of the values of next(), or, in a
\* build with assertions on, level() aborts the program and cell is not
\* assigned.
DoNextOfInvalid ==
    /\ ~is_valid(cell)
    /\ \/ cell' \in next(cell) /\ op' = "next"
       \/ v1_next(ToS2CellId(cell)) = Zero /\ cell' = cell /\ op' = "abort"
    /\ arg' = 0
    /\ before' = cell
    /\ UNCHANGED <<old, ret>>

\* cell = cell.prev() called on a value that is_valid() rejects.  Where the
\* Primary result is 0 the call returns one of the values of prev(), or, in a
\* build with assertions on, level() aborts the program and cell is not
\* assigned.
DoPrevOfInvalid ==
    /\ ~is_valid(cell)
    /\ \/ cell' \in prev(cell) /\ op' = "prev"
       \/ v1_prev(ToS2CellId(cell)) = Zero /\ cell' = cell /\ op' = "abort"
    /\ arg' = 0
    /\ before' = cell
    /\ UNCHANGED <<old, ret>>

\* parent(), child(p), next() and prev() of a raw Compact input
NextInvalid ==
    \/ op = "init" /\ DoParent
    \/ op = "init" /\ \E p \in 0..3 : DoChild(p)
    \/ op = "init" /\ DoNextOfInvalid
    \/ op = "init" /\ DoPrevOfInvalid

SpecInvalid == InitRel /\ [][NextInvalid]_vars

\* ------------------------------------------- Primary bits specification

\* Primary values of every kind: cells, None, Sentinel, faces 6 and 7, a lowest
\* set bit at an odd position, and a lowest set bit above position 60
InitBits ==
    /\ old \in PrimaryInputs \cup {{61}, {62}}
    /\ cell = None
    /\ op = "init"
    /\ arg = 0
    /\ before = Zero
    /\ ret = 0

\* ret = old.is_valid()
DoV1IsValid ==
    /\ ret' = v1_is_valid(old)
    /\ op' = "v1_is_valid"
    /\ UNCHANGED <<old, cell, arg, before>>

\* ret = old.level(); REQUIRES old # 0 (ABSL_ASSUME)
DoV1Level ==
    /\ old # Zero
    /\ ret' = v1_level(old)
    /\ op' = "v1_level"
    /\ UNCHANGED <<old, cell, arg, before>>

\* ret = (old.lsb() <= b.lsb()) for two cells
DoV1LsbLe(b) ==
    /\ v1_is_valid(old) /\ v1_is_valid(b)
    /\ ret' = Le(v1_lsb(old), v1_lsb(b))
    /\ op' = "v1_lsb_le"
    /\ before' = b
    /\ UNCHANGED <<old, cell, arg>>

\* the cells of the last face on the mixed path, one of each level
LsbOperands ==
    {v1_FromFacePosLevel(v1_kNumFaces - 1, PosPattern(2), l) : l \in v1_Levels}

NextBits ==
    \/ op = "init" /\ DoV1IsValid
    \/ op = "init" /\ DoV1Level
    \/ op = "init" /\ \E b \in LsbOperands : DoV1LsbLe(b)

SpecBits == InitBits /\ [][NextBits]_vars

\* -------------------------------------------------- tree specification

\* the walk starts at the face cells of the first and the last face
InitTree ==
    /\ cell \in {FromFace(f) : f \in OrdFaces}
    /\ old = v1_None
    /\ op = "init"
    /\ arg = 0
    /\ before = Zero
    /\ ret = 0

\* the cells the walk goes on from: those whose child positions follow one of
\* the patterns 0..MaxSeed
OnTreePath(c) ==
    /\ is_valid(c)
    /\ \E t \in 0..MaxSeed : path(c) = PathOfPattern(t, level(c))

\* any sequence of child(p) and parent() steps from a face cell, and parent(k)
\* of a cell so reached
NextTree ==
    \/ op # "parent_level" /\ OnTreePath(cell) /\ \E p \in 0..3 : DoChild(p)
    \/ op # "parent_level" /\ OnTreePath(cell) /\ DoParent
    \/ op # "parent_level" /\ OnTreePath(cell)
          /\ \E k \in 0..level(cell) : DoParentLevel(k)

SpecTree == InitTree /\ [][NextTree]_vars

\* --------------------------------------------- iteration specification

\* prev() applied n times
RECURSIVE v1_PrevTimes(_, _)
v1_PrevTimes(id, n) ==
    IF n = 0 THEN id
    ELSE LET p == v1_prev(id) IN IF p = p THEN v1_PrevTimes(p, n - 1) ELSE p

\* the cell of level d that is DeepSteps cells before the end of face f
NearEndOfFace(f, d) ==
    FromS2CellId(v1_PrevTimes(v1_child_end_level(v1_FromFace(f), d), DeepSteps))

\* for (c = Begin(d); c != End(d); c = c.next()): arg is d and ret counts the
\* cells visited. At levels 0..MaxCycleLevel the loop runs from Begin(d) to
\* its end; at a deeper level it is followed for DeepSteps + 1 steps from
\* Begin(d) and from the cells near the end of each face.
InitIter ==
    /\ arg \in 0..kMaxLevel
    /\ \/ cell = Begin(arg) /\ op = "Begin"
       \/ /\ arg > MaxCycleLevel
          /\ cell \in {NearEndOfFace(f, arg) : f \in Faces}
          /\ op = "resume"
    /\ old = v1_None
    /\ before = Zero
    /\ ret = 0

\* the loop test c != End(d)
DoIterTest ==
    /\ op \in {"Begin", "resume", "next"}
    /\ arg > MaxCycleLevel => ret < DeepSteps + 1
    /\ op' = IF cell # End(arg) THEN "body" ELSE "end"
    /\ UNCHANGED <<old, cell, arg, before, ret>>

\* the loop body, which counts the cell, and c = c.next()
DoIterNext ==
    /\ op = "body"
    /\ cell' \in next(cell)
    /\ before' = cell
    /\ ret' = ret + 1
    /\ op' = "next"
    /\ UNCHANGED <<old, arg>>

NextIter == DoIterTest \/ DoIterNext

\* a step of the loop as seen on op: every step of NextIter is one, and one is
\* possible exactly when NextIter has a step
IterProgress ==
    \/ /\ op \in {"Begin", "resume", "next"}
       /\ arg > MaxCycleLevel => ret < DeepSteps + 1
       /\ op' \in {"body", "end"}
    \/ /\ op = "body"
       /\ op' = "next"

\* the loop is a sequential program: it takes its next step whenever it has one
SpecIter == InitIter /\ [][NextIter]_vars /\ WF_op(IterProgress)

\* --------------------------------------- child iteration specification

\* Steps of a loop over the children are followed up to ChildStepCap.
ChildStepCap == 6

\* for (c = x.child_begin(); c != x.child_end(); c = c.next()) on a valid
\* cell x above the deepest level: before is x and ret counts the cells visited
InitChildIter ==
    /\ before \in {x \in CompactInputsOf(RelFaces) : is_valid(x) /\ level(x) < kMaxLevel}
    /\ cell = child_begin(before)
    /\ op = "child_begin"
    /\ old = v1_None
    /\ arg = 0
    /\ ret = 0

\* the loop test c != x.child_end()
DoChildIterTest ==
    /\ op \in {"child_begin", "next"}
    /\ ret < ChildStepCap
    /\ \E end \in child_end(before) : op' = IF cell # end THEN "body" ELSE "end"
    /\ UNCHANGED <<old, cell, arg, before, ret>>

\* the loop body, which counts the cell, and c = c.next()
DoChildIterNext ==
    /\ op = "body"
    /\ cell' \in next(cell)
    /\ ret' = ret + 1
    /\ op' = "next"
    /\ UNCHANGED <<old, arg, before>>

NextChildIter == DoChildIterTest \/ DoChildIterNext

\* a step of the loop as seen on op
ChildIterProgress ==
    \/ /\ op \in {"child_begin", "next"}
       /\ ret < ChildStepCap
       /\ op' \in {"body", "end"}
    \/ /\ op = "body"
       /\ op' = "next"

\* the loop is a sequential program: it takes its next step whenever it has one
SpecChildIter ==
    InitChildIter /\ [][NextChildIter]_vars /\ WF_op(ChildIterProgress)

\* ------------------------------------- outside factories specification

\* old is the Primary identifier a factory gets from outside: read from a
\* token, a debug string or a decoder, or made from a point
InitOutside ==
    /\ old \in PrimaryInputs
    /\ cell = None
    /\ op = "init"
    /\ arg = 0
    /\ before = Zero
    /\ ret = <<>>

\* cell = S2CellId::FromPoint(point), old being OriginalS2CellId(point), a leaf
DoFromPoint ==
    /\ v1_is_valid(old) /\ v1_is_leaf(old)
    /\ cell' = FromPoint(old)
    /\ op' = "FromPoint"
    /\ before' = cell
    /\ UNCHANGED <<old, arg, ret>>

\* cell.Decode(decoder), old being the value the Primary Decode has read;
\* level() of 0 is undefined, so either branch may be taken for it
DoDecode ==
    /\ IF old = Zero
       THEN cell' \in {FromS2CellId(old),
                       FromS2CellId(v1_parent_level(old, kMaxLevel))}
       ELSE cell' = Decode(old)
    /\ op' = "Decode"
    /\ before' = cell
    /\ UNCHANGED <<old, arg, ret>>

\* cell = S2CellId::FromDebugString(str), old being what the Primary
\* FromDebugString has read
DoFromDebugString ==
    /\ cell' = FromDebugString(old)
    /\ op' = "FromDebugString"
    /\ before' = cell
    /\ UNCHANGED <<old, arg, ret>>

\* the identifier from outside is handed to a factory; for FromToken it is
\* written as a token first
NextOutside ==
    \/ op = "init" /\ DoFromPoint
    \/ op = "init" /\ DoDecode
    \/ op = "init" /\ DoFromDebugString
    \/ op = "init" /\ DoV1ToToken
    \/ op = "v1_ToToken" /\ DoFromToken

SpecOutside == InitOutside /\ [][NextOutside]_vars

\* ------------------------------------------------ closure specification

\* cell = cell.next_wrap()
DoNextWrapOf ==
    /\ cell' \in next_wrap(cell)
    /\ op' = "next_wrap"
    /\ before' = cell
    /\ UNCHANGED <<old, arg, ret>>

\* cell = cell.prev_wrap()
DoPrevWrapOf ==
    /\ cell' \in prev_wrap(cell)
    /\ op' = "prev_wrap"
    /\ before' = cell
    /\ UNCHANGED <<old, arg, ret>>

\* the walk goes on from the valid cells of the first and the last face on the
\* pattern paths, reached by a step up, down or along their level; parent(k),
\* range_min() and range_max() are applied to each of them
WalksOn ==
    /\ op \in {"init", "child", "parent", "next", "prev", "next_wrap", "prev_wrap"}
    /\ OnTreePath(cell)
    /\ face(cell) \in OrdFaces

\* any sequence of navigation steps from a face cell, each applied to a valid
\* cell
NextClosure ==
    \/ WalksOn /\ \E p \in 0..3 : DoChild(p)
    \/ WalksOn /\ DoParent
    \/ WalksOn /\ \E k \in 0..level(cell) : DoParentLevel(k)
    \/ WalksOn /\ DoNext
    \/ WalksOn /\ DoPrev
    \/ WalksOn /\ DoNextWrapOf
    \/ WalksOn /\ DoPrevWrapOf
    \/ WalksOn /\ DoRangeMin
    \/ WalksOn /\ DoRangeMax

SpecClosure == InitTree /\ [][NextClosure]_vars

\* --------------------------------------------- face factory specification

\* int face arguments: a window round the faces, and the ends of the 32-bit
\* range
FaceWindow == 16
FaceArguments == (-FaceWindow..FaceWindow) \cup {-IntMax - 1, IntMax}

\* a face cell is made by FromFace or by FromFaceLevel
NextFace ==
    \/ op = "init" /\ \E f \in FaceArguments : DoFromFace(f)
    \/ op = "init" /\ \E f \in FaceArguments, l \in {0, 1, kMaxLevel} : DoFromFaceLevel(f, l)

SpecFace == InitNav /\ [][NextFace]_vars

\* ----------------------------------------------- sentinel specification

\* ret = (old < s2v1::S2CellId::Sentinel()), on a valid Primary cell
DoV1LessThanSentinel ==
    /\ v1_is_valid(old)
    /\ ret' = Lt(old, v1_Sentinel)
    /\ op' = "v1_lt_sentinel"
    /\ UNCHANGED <<old, cell, arg, before>>

\* ret = (cell < S2CellId::Sentinel()), on a valid Compact cell
DoLessThanSentinel ==
    /\ is_valid(cell)
    /\ ret' = CellLt(cell, Sentinel)
    /\ op' = "lt_sentinel"
    /\ UNCHANGED <<old, cell, arg, before>>

\* ret = (S2CellId::Sentinel() < cell), on a valid Compact cell
DoSentinelLessThan ==
    /\ is_valid(cell)
    /\ ret' = CellLt(Sentinel, cell)
    /\ op' = "sentinel_lt"
    /\ UNCHANGED <<old, cell, arg, before>>

\* a valid cell is compared against the Sentinel of its class
NextSentinel ==
    \/ op = "init" /\ DoV1LessThanSentinel
    \/ op = "init" /\ DoLessThanSentinel
    \/ op = "init" /\ DoSentinelLessThan

SpecSentinel == InitWrap /\ [][NextSentinel]_vars

\* ------------------------------------------ Primary pairs specification

\* the cells a cell is tested against: itself, its ancestors at level 0 and
\* one level up, its children, its first and last leaf, its neighbours along
\* the curve and its parent's, and a cell of each level on the last face
PairOperands(a) ==
    LET up == IF v1_is_face(a) THEN a ELSE v1_parent(a)
        related ==
            {a, up, v1_parent_level(a, 0), v1_range_min(a), v1_range_max(a),
             v1_next(a), v1_prev(a), v1_next(up), v1_prev(up),
             v1_prev(v1_range_min(a)), v1_next(v1_range_max(a))}
        children ==
            IF v1_is_leaf(a) THEN {} ELSE {v1_child(a, p) : p \in 0..3}
    IN {b \in related \cup children \cup LsbOperands : v1_is_valid(b)}

\* ret = old.contains(b); before becomes b
DoV1ContainsOf(b) ==
    /\ ret' = v1_contains(old, b)
    /\ op' = "v1_contains"
    /\ before' = b
    /\ UNCHANGED <<old, cell, arg>>

\* ret = old.intersects(b); before becomes b
DoV1IntersectsOf(b) ==
    /\ ret' = v1_intersects(old, b)
    /\ op' = "v1_intersects"
    /\ before' = b
    /\ UNCHANGED <<old, cell, arg>>

\* a valid Primary cell is tested against a valid Primary cell
NextPairs ==
    \/ op = "init" /\ v1_is_valid(old) /\ \E b \in PairOperands(old) : DoV1ContainsOf(b)
    \/ op = "init" /\ v1_is_valid(old) /\ \E b \in PairOperands(old) : DoV1IntersectsOf(b)

SpecPairs == Init /\ [][NextPairs]_vars

\* ---------------------------------------------------------------- claims

\* C1: for every valid Primary identifier x with level(x) <= 28, converting to
\* Compact (FromS2CellId) and back (ToS2CellId) reproduces x exactly, and the
\* Compact identifier in between is valid with the face and the level of x.
\* (In Spec, ToS2CellId is applied only to the cell FromS2CellId made of
\* `before`, the Primary value the round trip started from.)
C1_RoundTripExact ==
    (op = "ToS2CellId" /\ v1_is_valid(before) /\ v1_level(before) <= kMaxLevel)
        => /\ old = before
           /\ is_valid(cell)
           /\ face(cell) = v1_face(before)
           /\ level(cell) = v1_level(before)

C1_Witness ==
    /\ op = "ToS2CellId"
    /\ v1_is_valid(before) /\ v1_level(before) = kMaxLevel /\ v1_face(before) = 5
    /\ path(cell) # Zero
    /\ old = before

\* C3 as claimed: for every valid Primary identifier x with level(x) > 28 the
\* round trip reproduces x.parent(28).
C3_RoundTripTruncates ==
    (op = "ToS2CellId" /\ v1_is_valid(before) /\ v1_level(before) > kMaxLevel)
        => old = v1_parent_level(before, kMaxLevel)

\* C3 as amended: for every valid Primary identifier x with level(x) > 28 the
\* conversion yields the invalid Compact value 0 and the round trip yields
\* None; it reproduces x.parent(28) when x is truncated to parent(28) before
\* it is converted.
C3_RoundTripOfDeepIsNone ==
    (op = "ToS2CellId" /\ v1_is_valid(before) /\ v1_level(before) > kMaxLevel)
        => /\ cell = None
           /\ old = v1_None
           /\ ToS2CellId(FromS2CellId(v1_parent_level(before, kMaxLevel)))
                  = v1_parent_level(before, kMaxLevel)

C3_Witness ==
    /\ op = "ToS2CellId"
    /\ v1_is_valid(before) /\ v1_level(before) = kMaxLevel + 1
    /\ old = v1_None
    /\ v1_parent_level(before, kMaxLevel) # v1_FromFacePosLevel(v1_face(before), Zero, kMaxLevel)

\* C4: ConvertFromOldFormat returns 0, never a truncated ancestor, whenever the
\* Primary input is invalid or has level > 28, so FromS2CellId(old) is invalid
\* for every such input; and CanRepresentInNewFormat(old) is true exactly when
\* old.level() <= 28, which for a valid old is exactly when FromS2CellId(old)
\* is valid.
C4_DeepOrInvalidConvertsToZero ==
    /\ (op = "FromS2CellId" /\ (~v1_is_valid(old) \/ v1_level(old) > kMaxLevel))
          => (cell = Zero /\ ~is_valid(cell))
    /\ (op = "CanRepresentInNewFormat" /\ old # Zero)
          => /\ ret = (v1_level(old) <= kMaxLevel)
             /\ v1_is_valid(old) => (ret = is_valid(FromS2CellId(old)))

\* FromS2CellId has converted a valid leaf cell to 0, or
\* CanRepresentInNewFormat has answered false for a valid cell of level 29
C4_Witness ==
    \/ /\ op = "FromS2CellId"
       /\ v1_is_valid(old) /\ v1_level(old) = v1_kMaxLevel
       /\ cell = Zero
    \/ /\ op = "CanRepresentInNewFormat"
       /\ v1_is_valid(old) /\ v1_level(old) = kMaxLevel + 1
       /\ ret = FALSE

\* C5: for every valid Primary identifier x with level() < 30 and every p in
\* 0..3: x.child(p) is valid at level() + 1, x.child(p).parent() == x, the four
\* children are pairwise distinct, and x.contains(x.child(p)).
C5_ChildParent ==
    (op = "v1_child" /\ v1_level(before) < v1_kMaxLevel)
        => /\ v1_is_valid(old)
           /\ v1_level(old) = v1_level(before) + 1
           /\ v1_parent(old) = before
           /\ \A q \in 0..3 : q # arg => v1_child(before, q) # old
           /\ v1_contains(before, old)

C5_Witness ==
    /\ op = "v1_contains"
    /\ v1_level(before) = v1_kMaxLevel - 1
    /\ old = v1_child(before, 3)
    /\ v1_parent(old) = before
    /\ ret = TRUE

\* C2 (as stated): a valid Compact identifier converts to a valid Primary
\* identifier of the same face and level (at most 28), converting that back
\* gives the identifier it came from, and so no two valid Compact identifiers
\* share a Primary identifier.
C2_ValidCompactBijective ==
    /\ (op = "ToS2CellId" /\ is_valid(cell))
           => /\ v1_is_valid(old)
              /\ v1_face(old) = face(cell)
              /\ v1_level(old) = level(cell)
              /\ level(cell) <= kMaxLevel
    /\ (op = "FromS2CellId" /\ is_valid(before)) => cell = before

\* C6: a valid Compact identifier x with level() > 0 has a child position in
\* 0..3, its parent() is valid, one level up on the same face, and
\* x.parent().child(x.child_position()) is x again.
C6_ParentChildPosition ==
    (op = "parent" /\ is_valid(before) /\ level(before) > 0)
        => /\ child_position(before) \in 0..3
           /\ is_valid(cell)
           /\ level(cell) = level(before) - 1
           /\ face(cell) = face(before)
           /\ child(cell, child_position(before)) = before

\* parent() has produced the face-0 root from a level-1 cell
C6_Witness ==
    /\ op = "parent"
    /\ is_valid(before)
    /\ level(before) = 1
    /\ child_position(before) = 3
    /\ cell = RootMarker

\* C7 (as stated): a valid Compact identifier x with level() < 28 has four valid
\* children one level down, and the parent() of each is x.
C7_ChildThenParent ==
    (op = "child" /\ is_valid(before) /\ level(before) < kMaxLevel)
        => /\ is_valid(cell)
           /\ level(cell) = level(before) + 1
           /\ parent(cell) = before

\* C9: for a valid Compact identifier x, range_min() and range_max() are
\* valid, range_min() <= x <= range_max(), range_min() <= range_max(), and they
\* are the first and the last level-28 descendant of x (x itself at level 28).
C9_RangeBounds ==
    /\ (op = "range_min" /\ is_valid(before))
           => /\ is_valid(cell)
              /\ CellLe(cell, before)
              /\ CellLe(cell, range_max(before))
              /\ level(cell) = kMaxLevel
              /\ cell = Descendant(before, 0)
              /\ (level(before) = kMaxLevel => cell = before)
    /\ (op = "range_max" /\ is_valid(before))
           => /\ is_valid(cell)
              /\ CellLe(before, cell)
              /\ CellLe(range_min(before), cell)
              /\ level(cell) = kMaxLevel
              /\ cell = Descendant(before, 3)
              /\ (level(before) = kMaxLevel => cell = before)

\* range_max() of a level-3 cell is a different cell, at level 28
C9_Witness ==
    /\ op = "range_max"
    /\ is_valid(before)
    /\ level(before) = 3
    /\ path(before) # Zero
    /\ cell # before
    /\ level(cell) = kMaxLevel
    /\ CellLt(before, cell)

\* the last cell of face 5 and the first cell of face 0 at the cell's level
IsLastOfFace5(x) ==
    face(x) = v1_kNumFaces - 1 /\ path(x) = Sub(Shl(One, 2 * level(x)), One)
IsFirstOfFace0(x) == face(x) = 0 /\ path(x) = Zero

\* C10: for x converted from a valid Primary identifier of level <= 28, a
\* valid next() has x's level and next().prev() is x, a valid prev() has x's
\* level and prev().next() is x; next() is invalid exactly at the last cell of
\* face 5 and prev() exactly at the first cell of face 0.
C10_NextPrevInverse ==
    /\ (op = "next" /\ v1_is_valid(old) /\ v1_level(old) <= kMaxLevel)
           => /\ before = FromS2CellId(old)
              /\ (is_valid(cell) => level(cell) = level(before) /\ prev(cell) = {before})
              /\ (~is_valid(cell) <=> IsLastOfFace5(before))
    /\ (op = "prev" /\ v1_is_valid(old) /\ v1_level(old) <= kMaxLevel)
           => /\ before = FromS2CellId(old)
              /\ (is_valid(cell) => level(cell) = level(before) /\ next(cell) = {before})
              /\ (~is_valid(cell) <=> IsFirstOfFace0(before))

\* next() has stepped from the last cell of one face to the first of the next
C10_Witness ==
    /\ op = "next"
    /\ is_valid(before)
    /\ level(before) = kMaxLevel
    /\ face(before) = 2
    /\ is_valid(cell)
    /\ face(cell) = 3
    /\ path(cell) = Zero

\* C8: FromFaceLevel(0,0) is the root marker (bit 60 alone, not 0), valid,
\* of face 0 and level 0, equal to FromFace(0); child(p).parent(), parent(0),
\* the conversion to Primary and back, ToString()/FromString(),
\* ToToken()/FromToken() and next().prev() all give the same root back.
C8_Face0RootRoundTrips ==
    /\ (op = "FromFaceLevel" /\ ret = 0 /\ arg = 0)
           => /\ cell = {kLevelBits + kPathBits - 1}
              /\ cell # Zero
              /\ is_valid(cell)
              /\ face(cell) = 0
              /\ level(cell) = 0
              /\ cell = FromFace(0)
    /\ (op = "child" /\ before = FromFaceLevel(0, 0)) => parent(cell) = before
    /\ (op = "parent_level" /\ before = FromFaceLevel(0, 0) /\ arg = 0)
           => cell = before
    /\ (op = "ToS2CellId" /\ cell = FromFaceLevel(0, 0)) => FromS2CellId(old) = cell
    /\ (op = "FromString" /\ before = FromFaceLevel(0, 0)) => cell = before
    /\ (op = "FromToken" /\ before = FromFaceLevel(0, 0)) => cell = before
    /\ (op = "next" /\ before = FromFaceLevel(0, 0)) => prev(cell) = {before}

\* the root's token "1" has been read back
C8_Witness ==
    /\ op = "FromToken"
    /\ before = RootMarker
    /\ ret = <<"1">>
    /\ cell = RootMarker

\* b is a child of a, under child(p) or under parent()
IsChildOf(b, a) ==
    \/ \E p \in 0..3 : b = child(a, p)
    \/ level(b) > 0 /\ a = parent(b)

\* C11: a valid Compact identifier contains and intersects itself; it
\* contains and intersects each valid child(p), which intersects it; for
\* level() > 0 its parent() contains and intersects it and it intersects its
\* parent().
C11_ContainsIntersectsFamily ==
    /\ (op = "contains" /\ (cell = before \/ IsChildOf(cell, before))) => ret = TRUE
    /\ (op = "intersects"
            /\ (cell = before \/ IsChildOf(cell, before) \/ IsChildOf(before, cell)))
           => ret = TRUE

\* parent().contains(x) has answered for a level-28 cell
C11_Witness ==
    /\ op = "contains"
    /\ level(cell) = kMaxLevel
    /\ before = parent(cell)
    /\ before # cell
    /\ ret = TRUE

\* C12: for Compact identifiers a and b converted from valid Primary
\* identifiers of level <= 28 exactly one of a < b, a == b, b < a holds, and
\* a < b exactly when a's Primary integer is the smaller; a sorted container
\* keeps every distinct identifier put into it and iterates in ascending
\* order of the Primary integers.
C12_TotalOrderOfConverted ==
    op = "insert" =>
        /\ \A i \in 1..Len(ret) :
              LET a == cell
                  b == ret[i]
                  old_b == ToS2CellId(b)
                  lt == CellLt(a, b)
                  gt == CellLt(b, a)
              IN /\ (lt <=> Lt(old, old_b))
                 /\ (gt <=> Lt(old_b, old))
                 /\ (lt /\ a # b /\ ~gt) \/ (~lt /\ a = b /\ ~gt) \/ (~lt /\ a # b /\ gt)
        /\ \E i \in 1..Len(ret) : ret[i] = cell
        /\ before # None => \E i \in 1..Len(ret) : ret[i] = before
        /\ \A i \in 1..(Len(ret) - 1) : Lt(ToS2CellId(ret[i]), ToS2CellId(ret[i + 1]))

\* a face cell was put in after one of its level-28 descendants and iterates
\* before it
C12_Witness ==
    /\ op = "insert"
    /\ Len(ret) = 2
    /\ level(cell) = 0
    /\ ret[1] = cell
    /\ ret[2] = before
    /\ level(before) = kMaxLevel
    /\ face(before) = face(cell)

\* the last Primary cell of face 5 at the cell's level
v1_IsLastOfFace5(x) == x = v1_prev(v1_End(v1_level(x)))

\* C13 (as stated): for a valid identifier x of level d, Primary or Compact,
\* next_wrap() and prev_wrap() are valid cells of level d; next_wrap() is
\* next() except at the last cell of face 5, where it is Begin(d); prev_wrap()
\* is prev() except at Begin(d), where it is the last cell of face 5;
\* x.next_wrap().prev_wrap() is x; repeated next_wrap() is back at x after
\* exactly 6 * 4^d steps.
C13_WrapAround ==
    /\ op = "v1_next_wrap"
           => /\ v1_is_valid(old) /\ v1_level(old) = v1_level(ret)
              /\ old = (IF v1_IsLastOfFace5(ret) THEN v1_Begin(v1_level(ret))
                        ELSE v1_next(ret))
              /\ v1_prev_wrap(old) = ret
              /\ (v1_level(before) <= MaxCycleLevel
                      => (old = before <=> arg = CellsAtLevel(v1_level(before))))
    /\ op = "v1_prev_wrap"
           => /\ v1_is_valid(old) /\ v1_level(old) = v1_level(ret)
              /\ old = (IF ret = v1_Begin(v1_level(ret))
                        THEN v1_prev(v1_End(v1_level(ret)))
                        ELSE v1_prev(ret))
              /\ v1_next_wrap(old) = ret
    /\ op = "next_wrap"
           => /\ is_valid(cell) /\ level(cell) = level(ret)
              /\ {cell} = (IF IsLastOfFace5(ret) THEN {Begin(level(ret))} ELSE next(ret))
              /\ prev_wrap(cell) = {ret}
              /\ (level(before) <= MaxCycleLevel
                      => (cell = before <=> arg = CellsAtLevel(level(before))))
    /\ op = "prev_wrap"
           => /\ is_valid(cell) /\ level(cell) = level(ret)
              /\ {cell} = (IF ret = Begin(level(ret))
                           THEN {FromS2CellId(v1_prev(v1_End(level(ret))))}
                           ELSE prev(ret))
              /\ (ret = Begin(level(ret)) => IsLastOfFace5(cell))
              /\ next_wrap(cell) = {ret}

\* C14: for a valid Compact identifier x, FromString(x.ToString()) is valid
\* and has x's face(), level() and path().
C14_StringRoundTrip ==
    (op = "FromString" /\ is_valid(before))
        => /\ is_valid(cell)
           /\ face(cell) = face(before)
           /\ level(cell) = level(before)
           /\ path(cell) = path(before)

\* the string of a level-28 cell with a mixed path has been read back
C14_Witness ==
    /\ op = "FromString"
    /\ is_valid(before)
    /\ level(before) = kMaxLevel
    /\ Len(ret) = kMaxLevel + 2
    /\ \E i, j \in 3..Len(ret) : i < j /\ ret[i] = "1" /\ ret[j] = "2"
    /\ cell = before

\* the child positions of x and of its ancestors, from the level-1 ancestor
\* down to x, as characters
RECURSIVE PositionChars(_)
PositionChars(x) ==
    IF level(x) = 0 THEN <<>>
    ELSE LET up == parent(x)
         IN IF up = up
            THEN PositionChars(up) \o <<CharOf(DecChars, child_position(x))>>
            ELSE <<>>

\* C15: ToString() of a valid Compact identifier of face f and level l is the
\* digit f alone when l = 0, and otherwise f, '/' and l digits in '0'..'3'
\* that are the child positions from the root to the leaf; of an invalid
\* identifier it is "INVALID"; FromFace(0) gives "0" and FromFace(3).child(2)
\* gives "3/2".
C15_StringForm ==
    op = "ToString" =>
        /\ is_valid(cell) /\ level(cell) = 0 => ret = <<CharOf(DecChars, face(cell))>>
        /\ is_valid(cell) /\ level(cell) > 0
               => /\ Len(ret) = level(cell) + 2
                  /\ ret[1] = CharOf(DecChars, face(cell))
                  /\ ret[2] = "/"
                  /\ \A k \in 3..Len(ret) : ret[k] \in {"0", "1", "2", "3"}
                  /\ SubSeq(ret, 3, Len(ret)) = PositionChars(cell)
        /\ ~is_valid(cell) => ret = <<"I", "N", "V", "A", "L", "I", "D">>
        /\ cell = FromFace(0) => ret = <<"0">>
        /\ cell = child(FromFace(3), 2) => ret = <<"3", "/", "2">>

\* FromFace(3).child(2) has been written as "3/2"
C15_Witness ==
    /\ op = "ToString"
    /\ cell = child(FromFace(3), 2)
    /\ ret = <<"3", "/", "2">>

\* the text before the first '/' and the text after it
FacePart(str) ==
    IF FindSlash(str) = 0 THEN str ELSE SubSeq(str, 1, FindSlash(str) - 1)
PathPart(str) ==
    IF FindSlash(str) = 0 THEN <<>> ELSE SubSeq(str, FindSlash(str) + 1, Len(str))

\* the text is an integer in 0..5: after leading white space and one sign it
\* is digits to its end
IsFaceInteger(str) ==
    LET s == SkipSpaces(str, 1)
        d == IF s <= Len(str) /\ str[s] \in {"+", "-"} THEN s + 1 ELSE s
    IN /\ d <= Len(str)
       /\ \A k \in d..Len(str) : IsIn(DecChars, str[k])
       /\ stoi(str)[1]
       /\ stoi(str)[2] \in 0..5

ViolatesGrammar(str) ==
    \/ str = <<>>
    \/ ~IsFaceInteger(FacePart(str))
    \/ \E k \in 1..Len(PathPart(str)) : PathPart(str)[k] \notin {"0", "1", "2", "3"}
    \/ Len(PathPart(str)) > kMaxLevel

\* C16 (as stated): FromString returns the invalid identifier for every
\* input that violates the grammar: the empty string, a face part that is no
\* integer in 0..5, a path character outside '0'..'3', or more than 28 path
\* digits; "", "invalid", "6/0" and "0/4" are invalid.
C16_MalformedStringInvalid ==
    /\ (op = "FromString" /\ ViolatesGrammar(ret)) => ~is_valid(cell)
    /\ (op = "FromString"
            /\ ret \in {<<>>, <<"i", "n", "v", "a", "l", "i", "d">>,
                        <<"6", "/", "0">>, <<"0", "/", "4">>})
           => ~is_valid(cell)

\* a token of more than 16 characters, or with a character that is no
\* hexadecimal digit
MalformedToken(token) ==
    \/ Len(token) > 16
    \/ \E k \in 1..Len(token) : ~IsIn(HexChars, token[k])

\* C17: FromToken(ToToken(x)) is x for every valid Primary identifier x and
\* for None(); for a valid Compact identifier c, FromToken(c.ToToken()) is
\* valid with c's face and level; a malformed token yields None().
C17_TokenRoundTrip ==
    /\ (op = "v1_FromToken" /\ ret = v1_ToToken(before)
            /\ (v1_is_valid(before) \/ before = v1_None))
           => old = before
    /\ (op = "FromToken" /\ is_valid(before) /\ ret = ToToken(before))
           => /\ is_valid(cell)
              /\ face(cell) = face(before)
              /\ level(cell) = level(before)
    /\ (op = "v1_FromToken" /\ MalformedToken(ret)) => old = v1_None
    /\ (op = "FromToken" /\ MalformedToken(ret)) => cell = None

\* the 15-character token of a level-28 cell has been read back
C17_Witness ==
    /\ op = "FromToken"
    /\ is_valid(before)
    /\ level(before) = kMaxLevel
    /\ Len(ret) = 15
    /\ cell = before

\* the tokens of the face cells, in face order
FaceTokens == <<"1", "3", "5", "7", "9", "b">>

\* C18: the tokens of FromFace(0), ..., FromFace(5) are "1", "3", "5", "7",
\* "9", "b", and FromToken of each is a valid level-0 cell of that face.
C18_FaceTokens ==
    \A f \in 0..5 :
        /\ (op = "ToToken" /\ cell = FromFace(f)) => ret = <<FaceTokens[f + 1]>>
        /\ (op = "FromToken" /\ ret = <<FaceTokens[f + 1]>>)
               => is_valid(cell) /\ level(cell) = 0 /\ face(cell) = f

\* the token "b" of FromFace(5) has been read back
C18_Witness ==
    /\ op = "FromToken"
    /\ before = FromFace(5)
    /\ ret = <<"b">>
    /\ cell = before

\* C19: FromFaceLevel(face, level) is, for 0 <= face <= 5 and
\* 0 <= level <= 28, the valid Compact identifier of that face and level
\* with an all-zero path, the first cell of the face at the level; for every
\* other face or level it is invalid.
C19_FromFaceLevel ==
    op = "FromFaceLevel" =>
        IF ret \in 0..5 /\ arg \in 0..kMaxLevel
        THEN /\ is_valid(cell)
             /\ face(cell) = ret
             /\ level(cell) = arg
             /\ path(cell) = Zero
             /\ cell = FromS2CellId(v1_child_begin_level(v1_FromFace(ret), arg))
        ELSE ~is_valid(cell)

\* FromFaceLevel(5, 28) has made the first level-28 cell of face 5
C19_Witness ==
    /\ op = "FromFaceLevel"
    /\ ret = 5
    /\ arg = kMaxLevel
    /\ is_valid(cell)
    /\ cell = Pack(5, Zero, kMaxLevel)

\* C20: for a valid Compact identifier x, child(p) is invalid exactly when p
\* is outside 0..3 or x is at level 28; parent() is invalid exactly when x is
\* at level 0; parent(k) is x for level() <= k <= 28, and invalid for k < 0
\* or k > 28.
C20_MisuseIsInvalid ==
    /\ (op = "child" /\ is_valid(before))
           => (~is_valid(cell) <=> (arg \notin 0..3 \/ level(before) = kMaxLevel))
    /\ (op = "parent" /\ is_valid(before))
           => (~is_valid(cell) <=> level(before) = 0)
    /\ (op = "parent_level" /\ is_valid(before)
            /\ level(before) <= arg /\ arg <= kMaxLevel)
           => cell = before
    /\ (op = "parent_level" /\ is_valid(before) /\ (arg < 0 \/ arg > kMaxLevel))
           => ~is_valid(cell)

\* child(4) of a valid level-1 cell has given the invalid identifier
C20_Witness ==
    /\ op = "child"
    /\ arg = 4
    /\ is_valid(before)
    /\ level(before) = 1
    /\ cell = None

\* C21: for every Compact identifier x that is_valid() rejects, x.parent(),
\* x.child(p), x.next() and x.prev() are all invalid.
C21_InvalidStaysInvalid ==
    (op \in {"parent", "child", "next", "prev"} /\ ~is_valid(before))
        => ~is_valid(cell)

\* C22: a Primary value is valid iff its face is below 6 and its lowest set
\* bit is at an even index in 0..60; a valid cell has a level in 0..30 and
\* lsb() == lsb_for_level(level()) == 1 << (2*(30 - level())); so
\* a.lsb() <= b.lsb() iff a.level() >= b.level().
C22_ValidLevelLsb ==
    /\ op = "v1_is_valid"
          => (ret <=> /\ v1_face(old) < 6
                      /\ \E i \in old : /\ i % 2 = 0
                                        /\ i <= 60
                                        /\ \A j \in old : j >= i)
    /\ (op = "v1_level" /\ v1_is_valid(old))
          => /\ ret \in 0..30
             /\ v1_lsb(old) = v1_lsb_for_level(ret)
             /\ v1_lsb(old) = {2 * (30 - ret)}
    /\ op = "v1_lsb_le"
          => (ret <=> v1_level(old) >= v1_level(before))

\* the lsb() of a leaf cell has been compared against that of a level-3 cell
C22_Witness ==
    /\ op = "v1_lsb_le"
    /\ v1_level(old) = 30
    /\ v1_level(before) = 3
    /\ ret = TRUE

\* C23: for every Compact identifier c reached from a face cell by child(p)
\* and parent() steps and every operation among parent(), child(p) and
\* parent(k) with 0 <= k <= level(), the Primary form of the result equals the
\* operation applied to the Primary form of c (parent() being defined on the
\* Primary side for cells below level 0 only), and parent(k) equals parent()
\* applied level() - k times.
C23_NavigationRefines ==
    /\ op = "child"
          => ToS2CellId(cell) = v1_child(ToS2CellId(before), arg)
    /\ (op = "parent" /\ level(before) > 0)
          => ToS2CellId(cell) = v1_parent(ToS2CellId(before))
    /\ op = "parent_level"
          => /\ ToS2CellId(cell) = v1_parent_level(ToS2CellId(before), arg)
             /\ cell = ParentLoop(before, arg)

\* C23 as the code has it: the refinement holds for child(p) below level 28,
\* for parent() below level 0 and for every parent(k) with 0 <= k <= level(),
\* on the direct and on the delegated path; child(p) of a level-28 cell and
\* parent() of a face cell are the invalid identifier.
C23_NavigationRefinesWithinLevels ==
    /\ op = "child"
          => IF level(before) < kMaxLevel
             THEN ToS2CellId(cell) = v1_child(ToS2CellId(before), arg)
             ELSE cell = None
    /\ op = "parent"
          => IF level(before) > 0
             THEN ToS2CellId(cell) = v1_parent(ToS2CellId(before))
             ELSE cell = None
    /\ op = "parent_level"
          => /\ ToS2CellId(cell) = v1_parent_level(ToS2CellId(before), arg)
             /\ cell = ParentLoop(before, arg)

\* parent(k) has gone up more than five levels, on its delegated path
C23_Witness ==
    /\ op = "parent_level"
    /\ level(before) = 20
    /\ arg = 7
    /\ is_valid(cell)
    /\ level(cell) = 7
    /\ path(cell) # Zero

\* the cells the loop visits and the value it stops at
IterationSteps ==
    /\ op = "Begin" => (is_valid(cell) /\ level(cell) = arg)
    /\ (op = "next" /\ cell # End(arg))
          => /\ is_valid(cell)
             /\ level(cell) = arg
             /\ CellLt(before, cell)
             /\ face(cell) \in {face(before), face(before) + 1}
    /\ (op = "next" /\ IsLastOfFace5(before)) => cell = End(arg)
    /\ (op = "next" /\ cell = End(arg)) => IsLastOfFace5(before)
    /\ arg <= MaxCycleLevel
          => /\ ret <= CellsAtLevel(arg)
             /\ cell = End(arg) <=> ret = CellsAtLevel(arg)

\* C24: for every level d in 0..28 the loop c = Begin(d); c != End(d);
\* c = c.next() terminates: Begin(d) is valid at level d, the loop visits
\* exactly 6*4^d valid level-d cells in strictly ascending order, faces 0..5 in
\* order, and next() of the last cell of face 5 equals End(d).
C24_BeginEndIteration ==
    /\ []IterationSteps
    /\ (op = "Begin" /\ arg <= MaxCycleLevel) ~> (op = "end")
    /\ (op = "resume" /\ face(cell) = v1_kNumFaces - 1) ~> (op = "end")

\* a loop over the 96 cells of level 2 has come to its end
C24_Witness ==
    /\ op = "end"
    /\ arg = 2
    /\ ret = 96
    /\ IsLastOfFace5(before)
    /\ cell = End(2)

\* the cells the loop over the children visits
ChildIterationSteps ==
    /\ op = "child_begin"
          => /\ is_valid(cell)
             /\ level(cell) = level(before) + 1
             /\ \A end \in child_end(before) : is_valid(end) => CellLt(cell, end)
    /\ op = "body" => (ret < 4 /\ cell = child(before, ret))
    /\ op = "end" => ret = 4

\* C25: for every valid Compact identifier x with level() < 28, cells of face
\* 5 included, the loop c = x.child_begin(); c != x.child_end(); c = c.next()
\* visits exactly x.child(0), x.child(1), x.child(2), x.child(3) in that order
\* and then stops; child_begin() is valid at level() + 1, and child_begin() <
\* child_end() whenever child_end() is valid.
C25_ChildIteration ==
    /\ []ChildIterationSteps
    /\ <>(op = "end")

\* the loop over the children of the last level-27 cell of face 5 has come to
\* its end, where child_end() is the invalid identifier
C25_Witness ==
    /\ op = "end"
    /\ ret = 4
    /\ IsLastOfFace5(before)
    /\ level(before) = kMaxLevel - 1
    /\ cell = None

\* C26: when the valid Primary identifier p a factory gets from outside has
\* level 29 or 30, FromToken, FromDebugString, Decode and FromPoint yield
\* FromS2CellId(p.parent(28)), a valid level-28 cell whose Primary form
\* contains p, and not the invalid identifier.
C26_FactoriesTruncate ==
    (/\ op \in {"FromToken", "FromDebugString", "Decode", "FromPoint"}
     /\ v1_is_valid(old)
     /\ v1_level(old) > kMaxLevel)
        => /\ cell = FromS2CellId(v1_parent_level(old, kMaxLevel))
           /\ is_valid(cell)
           /\ level(cell) = kMaxLevel
           /\ face(cell) = v1_face(old)
           /\ v1_contains(ToS2CellId(cell), old)
           /\ ToS2CellId(cell) # old

\* a token of a level-29 cell of face 5 has been read
C26_Witness ==
    /\ op = "FromToken"
    /\ v1_is_valid(old)
    /\ v1_level(old) = 29
    /\ v1_face(old) = 5
    /\ Len(ret) = 16
    /\ is_valid(cell)
    /\ level(cell) = kMaxLevel

\* the bits of the 56-bit path field above position 2 * level
StrayPathBits(new_id) ==
    LET l == ToInt(And(new_id, kLevelMask))
        raw_path == And(Shr(new_id, kLevelBits), Sub(Shl(One, kPathBits), One))
    IN And(raw_path, Not(Sub(Shl(One, 2 * l), One)))

\* C27: after any sequence of child(p), parent(), parent(k), next(), prev(),
\* next_wrap(), prev_wrap(), range_min() and range_max() from a face cell, each
\* applied to a valid value, the value is None or is valid with face < 6,
\* level <= 28, every path bit above position 2*level zero, and equal to
\* ConvertFromOldFormat(ToOldFormat(value)).
C27_Closure ==
    \/ cell = None
    \/ /\ is_valid(cell)
       /\ face(cell) < 6
       /\ level(cell) <= kMaxLevel
       /\ StrayPathBits(cell) = Zero
       /\ cell = ConvertFromOldFormat(ToS2CellId(cell))

\* C27 with the root cell of face 0 set apart: its encoding is the marker bit,
\* the top bit of the path field, with level 0; every other value the walk
\* reaches is None or valid with no path bit above position 2*level.
C27_ClosureWithRootMarker ==
    \/ cell = None
    \/ /\ is_valid(cell)
       /\ face(cell) < 6
       /\ level(cell) <= kMaxLevel
       /\ IF face(cell) = 0 /\ level(cell) = 0
          THEN cell = RootMarker /\ StrayPathBits(cell) = {kPathBits - 1}
          ELSE StrayPathBits(cell) = Zero
       /\ cell = ConvertFromOldFormat(ToS2CellId(cell))

\* range_max() of a level-3 cell of face 5 has given a level-28 cell
C27_Witness ==
    /\ op = "range_max"
    /\ level(before) = 3
    /\ face(before) = 5
    /\ is_valid(cell)
    /\ level(cell) = kMaxLevel
    /\ cell # before

\* C28: for every 32-bit signed integer face, FromFace(face) equals
\* FromFaceLevel(face, 0): a valid level-0 cell with face() == face when
\* 0 <= face <= 5, and the invalid identifier for every other value.
C28_FromFaceOfAnyInt ==
    /\ op = "FromFace"
          => /\ cell = FromFaceLevel(arg, 0)
             /\ IF arg \in 0..5
                THEN is_valid(cell) /\ level(cell) = 0 /\ face(cell) = arg
                ELSE ~is_valid(cell)
    /\ (op = "FromFaceLevel" /\ arg = 0) => cell = FromFaceLevel(ret, 0)

\* C29: Sentinel() is invalid and compares greater than every valid
\* identifier: the Primary Sentinel under the comparison of the integers, and
\* the Compact Sentinel under the Compact operator< (v < Sentinel() and not
\* Sentinel() < v for every valid Compact v).
C29_SentinelIsGreatest ==
    /\ ~v1_is_valid(v1_Sentinel)
    /\ ~is_valid(Sentinel)
    /\ op = "v1_lt_sentinel" => ret = TRUE
    /\ op = "lt_sentinel" => ret = TRUE
    /\ op = "sentinel_lt" => ret = FALSE

\* C30: for all valid Primary identifiers a and b, a.contains(b) iff
\* b.level() >= a.level() and b.parent(a.level()) == a, and a.intersects(b)
\* iff a.contains(b) or b.contains(a).
C30_IntervalsAreTree ==
    /\ op = "v1_contains"
          => (ret <=> /\ v1_level(before) >= v1_level(old)
                      /\ v1_parent_level(before, v1_level(old)) = old)
    /\ op = "v1_intersects"
          => (ret <=> (v1_contains(old, before) \/ v1_contains(before, old)))

\* a level-7 cell has been found to contain its first leaf, and not the leaf
\* before it
C30_Witness ==
    /\ op = "v1_contains"
    /\ v1_level(old) = 7
    /\ before = v1_range_min(old)
    /\ ret = TRUE
    /\ ~v1_contains(old, v1_prev(before))

====
